---- MODULE Spec2Model ----
(***************************************************************************)
(* Heatmap colour engine, speed classifier and statistics aggregator of    *)
(* the network-speed heatmap application (src/src/types/index.ts, the      *)
(* heatmapUtils part, and src/src/components/StatsPanel.tsx).              *)
(*                                                                         *)
(* Numbers.  Speeds are whole Mbps.  Positions on the gradient axis are    *)
(* fixed-point integers in units of 1/PosScale.  Math.log10 is tabulated   *)
(* for the whole speeds of the input range (LOG_SCALE, units 1/LogScale).  *)
(* Quotients that the code leaves as fractions (the average) are kept as   *)
(* exact rationals [num, den]; IEEE-754 rounding of sums and quotients is  *)
(* not modelled.  Strings are sequences of one-character strings.          *)
(***************************************************************************)
EXTENDS Integers, Sequences, FiniteSets, Bags, TLC

(***************************************************************************)
(* Input ranges                                                            *)
(***************************************************************************)
\* lowest and highest speed handed to the colour and label functions;
\* estimateNetworkSpeed yields up to baseSpeed * 1.2 = 120
NegSpeeds == 3
MaxSpeedIn == 120

SpeedInputs == (0 - NegSpeeds)..MaxSpeedIn

\* normalized values handed to the stop lookup: k / 200 for k = 0 .. NormSteps
NormSteps == 220

\* longest list of data points handed to the statistics
MaxPoints == 3

\* speeds of recorded data points: the tier boundaries and their neighbours
StatSpeeds == {0, 1, 4, 5, 9, 10, 24, 25, 30, 49, 50, 99, 120}

\* opacities the callers pass, in hundredths (0.6 is the default)
Opacities == {15, 20, 40, 50, 60, 90, 100}

\* coordinates handed to the projection, in whole units of an arbitrary grid
GeoRange == 2
GeoCoords == (0 - GeoRange)..GeoRange

\* the largest latitudeDelta / longitudeDelta of a region, in the same units
MaxSpan == 4

(***************************************************************************)
(* Constants of heatmapUtils                                               *)
(***************************************************************************)
SPEED_THRESHOLDS ==
  [EXCELLENT |-> 50, GOOD |-> 25, FAIR |-> 10, POOR |-> 5, VERY_POOR |-> 1]

MAX_SPEED == 100

\* fixed-point unit of gradient positions: 1.00 is PosScale
PosScale == 1000000

\* fixed-point unit of the tabulated logarithm
LogScale == 100000

RGB(r, g, b) == [r |-> r, g |-> g, b |-> b]

\* the source's list is 0-based; GRADIENT_STOPS[k + 1] is the source's stop k
GRADIENT_STOPS == <<
  [pos |->       0, color |-> RGB(139,   0,  0)],
  [pos |->   50000, color |-> RGB(255,   0,  0)],
  [pos |->  150000, color |-> RGB(255,  69,  0)],
  [pos |->  250000, color |-> RGB(255, 140,  0)],
  [pos |->  350000, color |-> RGB(255, 165,  0)],
  [pos |->  450000, color |-> RGB(255, 215,  0)],
  [pos |->  550000, color |-> RGB(255, 255,  0)],
  [pos |->  650000, color |-> RGB(173, 255, 47)],
  [pos |->  750000, color |-> RGB(124, 252,  0)],
  [pos |->  850000, color |-> RGB( 50, 205, 50)],
  [pos |->  950000, color |-> RGB(  0, 200,  0)],
  [pos |-> 1000000, color |-> RGB(  0, 180,  0)] >>

NumStops == Len(GRADIENT_STOPS)

\* LOG_SCALE[s] = Math.log10(s + 1) / Math.log10(MAX_SPEED + 1) in units of
\* 1/LogScale, rounded to nearest, for s = 1 .. 121
LOG_SCALE == <<
  15019, 23805, 30038, 34873, 38824, 42164, 45057, 47609, 49892, 51957,
  53843, 55577, 57183, 58678, 60076, 61390, 62628, 63800, 64911, 65968,
  66976, 67940, 68862, 69746, 70596, 71414, 72202, 72962, 73697, 74407,
  75095, 75762, 76409, 77037, 77647, 78241, 78819, 79382, 79930, 80465,
  80987, 81497, 81995, 82482, 82959, 83425, 83881, 84328, 84765, 85194,
  85615, 86028, 86433, 86831, 87221, 87604, 87981, 88352, 88716, 89074,
  89426, 89773, 90114, 90450, 90781, 91107, 91428, 91744, 92056, 92363,
  92666, 92965, 93260, 93551, 93838, 94121, 94401, 94677, 94949, 95219,
  95484, 95747, 96007, 96263, 96516, 96767, 97015, 97259, 97501, 97741,
  97978, 98212, 98444, 98673, 98900, 99124, 99347, 99567, 99784, 100000,
  100213, 100425, 100634, 100842, 101047, 101250, 101452, 101652, 101850,
  102046, 102240, 102433, 102624, 102813, 103000, 103186, 103371, 103554,
  103735, 103915, 104093 >>

(***************************************************************************)
(* JavaScript library functions the code calls                             *)
(***************************************************************************)
MathMin2(a, b) == IF a <= b THEN a ELSE b

MathMax2(a, b) == IF a >= b THEN a ELSE b

\* Math.round(num / den) for den > 0: floor(x + 1/2), halves go up
MathRound(num, den) == (2 * num + den) \div (2 * den)

DigitChars ==
  <<"0", "1", "2", "3", "4", "5", "6", "7", "8", "9", "a", "b", "c", "d", "e", "f">>

DecimalDigits == {"0", "1", "2", "3", "4", "5", "6", "7", "8", "9"}

RECURSIVE ToStringRadix(_, _)
\* Number.prototype.toString(radix) of a non-negative integer
ToStringRadix(n, radix) ==
  IF n < radix
  THEN << DigitChars[n + 1] >>
  ELSE ToStringRadix(n \div radix, radix) \o << DigitChars[(n % radix) + 1] >>

\* `${n}` of an integer
NumberToString(n) ==
  IF n < 0 THEN << "-" >> \o ToStringRadix(0 - n, 10) ELSE ToStringRadix(n, 10)

\* `${x}` of a number given in hundredths, 0 <= x: 100 -> 1, 90 -> 0.9, 15 -> 0.15
HundredthsToString(h) ==
  IF h % 100 = 0 THEN ToStringRadix(h \div 100, 10)
  ELSE ToStringRadix(h \div 100, 10) \o << "." >> \o
       (IF h % 10 = 0
        THEN ToStringRadix((h % 100) \div 10, 10)
        ELSE << DigitChars[((h % 100) \div 10) + 1], DigitChars[(h % 10) + 1] >>)

RECURSIVE PadStart(_, _, _)
\* String.prototype.padStart
PadStart(str, targetLen, ch) ==
  IF Len(str) >= targetLen THEN str ELSE PadStart(<< ch >> \o str, targetLen, ch)

RECURSIVE ParseInt(_)
\* parseInt(str, 10) of a non-empty string of decimal digits
ParseInt(str) ==
  IF Len(str) = 0 THEN 0
  ELSE 10 * ParseInt(SubSeq(str, 1, Len(str) - 1))
       + (CHOOSE d \in 0..9 : DigitChars[d + 1] = str[Len(str)])

CharAt(str, i) == IF i \in 1..Len(str) THEN str[i] ELSE ""

RECURSIVE DigitRun(_, _)
\* index after the longest run of decimal digits that starts at i
DigitRun(str, i) ==
  IF CharAt(str, i) \in DecimalDigits THEN DigitRun(str, i + 1) ELSE i

RECURSIVE SkipSpaces(_, _)
\* index after the longest run of spaces that starts at i
SkipSpaces(str, i) ==
  IF CharAt(str, i) = " " THEN SkipSpaces(str, i + 1) ELSE i

\* /rgba?\((\d+),\s*(\d+),\s*(\d+)/ tried at position i: the three captured
\* groups, or << >> when the pattern does not match there
RgbaMatchAt(str, i) ==
  LET p1 == i + 3
      p2 == IF CharAt(str, p1) = "a" THEN p1 + 1 ELSE p1
      r1 == p2 + 1
      r2 == DigitRun(str, r1)
      g1 == SkipSpaces(str, r2 + 1)
      g2 == DigitRun(str, g1)
      b1 == SkipSpaces(str, g2 + 1)
      b2 == DigitRun(str, b1)
  IN  IF /\ CharAt(str, i) = "r" /\ CharAt(str, i + 1) = "g" /\ CharAt(str, i + 2) = "b"
         /\ CharAt(str, p2) = "("
         /\ r2 > r1 /\ CharAt(str, r2) = ","
         /\ g2 > g1 /\ CharAt(str, g2) = ","
         /\ b2 > b1
      THEN << SubSeq(str, r1, r2 - 1), SubSeq(str, g1, g2 - 1), SubSeq(str, b1, b2 - 1) >>
      ELSE << >>

RECURSIVE RgbaSearch(_, _)
\* the match at the leftmost position from i on, << >> when there is none
RgbaSearch(str, i) ==
  IF i > Len(str) THEN << >>
  ELSE IF RgbaMatchAt(str, i) # << >> THEN RgbaMatchAt(str, i)
  ELSE RgbaSearch(str, i + 1)

\* String.prototype.match with that pattern: the leftmost match, << >> for null
RgbaMatch(str) == RgbaSearch(str, 1)

\* `rgba(${r}, ${g}, ${b}, ${alpha})` with the alpha already a string
RgbaString(r, g, b, alpha) ==
  << "r", "g", "b", "a", "(" >> \o NumberToString(r) \o << ",", " " >>
    \o NumberToString(g) \o << ",", " " >> \o NumberToString(b) \o << ",", " " >>
    \o alpha \o << ")" >>

(***************************************************************************)
(* Gradient colour mapper                                                  *)
(***************************************************************************)
\* a fraction num / den with den > 0
Frac(num, den) == [num |-> num, den |-> den]

\* lerpColor with the two colours taken in the wrong order
lerpColor_Swapped(color1, color2, t) ==
  RGB(MathRound(color2.r * t.den + (color1.r - color2.r) * t.num, t.den),
      MathRound(color2.g * t.den + (color1.g - color2.g) * t.num, t.den),
      MathRound(color2.b * t.den + (color1.b - color2.b) * t.num, t.den))

\* lerpColor(color1, color2, t), t a fraction
lerpColor(color1, color2, t) ==
  RGB(MathRound(color1.r * t.den + (color2.r - color1.r) * t.num, t.den),
      MathRound(color1.g * t.den + (color2.g - color1.g) * t.num, t.den),
      MathRound(color1.b * t.den + (color2.b - color1.b) * t.num, t.den))

\* getSpeedColor, first part: the blended normalized value, in 1/PosScale
NormalizeSpeed(speed) ==
  LET normalizedLinear ==
        MathMin2(MathMax2(speed, 0) * (PosScale \div MAX_SPEED), PosScale)
      logScale == IF speed > 0 THEN LOG_SCALE[speed] * (PosScale \div LogScale) ELSE 0
  IN  (normalizedLinear * 4 + logScale * 6) \div 10

\* the pairs (i, i + 1) of adjacent stops that bracket the normalized value
BracketingPairs(normalized) ==
  { i \in 1..(NumStops - 1) :
      /\ normalized >= GRADIENT_STOPS[i].pos
      /\ normalized <= GRADIENT_STOPS[i + 1].pos }

\* the loop without its break: the last bracketing pair wins
FindGradientStops_LastMatch(normalized) ==
  LET hits == BracketingPairs(normalized)
      last == CHOOSE i \in hits : \A j \in hits : i >= j
  IN  IF hits = {}
      THEN [lower |-> 1, upper |-> NumStops, found |-> FALSE]
      ELSE [lower |-> last, upper |-> last + 1, found |-> TRUE]

\* getSpeedColor's loop: the first bracketing pair in stop order, and the
\* first and the last stop when there is none
FindGradientStops(normalized) ==
  LET hits == BracketingPairs(normalized)
      first == CHOOSE i \in hits : \A j \in hits : i <= j
  IN  IF hits = {}
      THEN [lower |-> 1, upper |-> NumStops, found |-> FALSE]
      ELSE [lower |-> first, upper |-> first + 1, found |-> TRUE]

\* the factor taken from the start of the axis, not of the segment
InterpolationFactor_NoOffset(normalized, lower, upper) ==
  LET range == GRADIENT_STOPS[upper].pos - GRADIENT_STOPS[lower].pos
  IN  IF range > 0 THEN Frac(normalized, range) ELSE Frac(0, 1)

\* the interpolation factor t between two stops
InterpolationFactor(normalized, lower, upper) ==
  LET range == GRADIENT_STOPS[upper].pos - GRADIENT_STOPS[lower].pos
  IN  IF range > 0
      THEN Frac(normalized - GRADIENT_STOPS[lower].pos, range)
      ELSE Frac(0, 1)

\* getSpeedColor, second part: stop lookup and interpolation; the result
\* keeps the locals of the call
ColorAtNormalized(normalized) ==
  LET stops == FindGradientStops(normalized)
      t == InterpolationFactor(normalized, stops.lower, stops.upper)
  IN  [normalized |-> normalized,
       lower |-> stops.lower, upper |-> stops.upper, found |-> stops.found,
       color |-> lerpColor(GRADIENT_STOPS[stops.lower].color,
                           GRADIENT_STOPS[stops.upper].color, t)]

\* the locals of getSpeedColor(speed, _)
SpeedColorLocals(speed) == ColorAtNormalized(NormalizeSpeed(speed))

\* getSpeedColor(speedMbps, opacity), opacity in hundredths
getSpeedColor(speed, opac) ==
  LET color == SpeedColorLocals(speed).color
  IN  RgbaString(color.r, color.g, color.b, HundredthsToString(opac))

\* the hex string of getSpeedColorComponents
HexString(r, g, b) ==
  << "#" >> \o PadStart(ToStringRadix(r, 16), 2, "0")
    \o PadStart(ToStringRadix(g, 16), 2, "0")
    \o PadStart(ToStringRadix(b, 16), 2, "0")

\* getSpeedColorComponents, the branch of a match: r, g and b parsed
ComponentsOf(r, g, b) == [r |-> r, g |-> g, b |-> b, hex |-> HexString(r, g, b)]

\* getSpeedColorComponents from the result of rgba.match
ComponentsOfMatch(match) ==
  IF match # << >>
  THEN ComponentsOf(ParseInt(match[1]), ParseInt(match[2]), ParseInt(match[3]))
  ELSE [r |-> 128, g |-> 128, b |-> 128,
        hex |-> << "#", "8", "0", "8", "0", "8", "0" >>]

\* getSpeedColorComponents(speedMbps)
getSpeedColorComponents(speed) ==
  ComponentsOfMatch(RgbaMatch(getSpeedColor(speed, 100)))

\* the record getHeatmapGradient builds from the base colour
GradientOf(baseColor) ==
  [inner  |-> RgbaString(baseColor.r, baseColor.g, baseColor.b, << "0", ".", "9" >>),
   middle |-> RgbaString(baseColor.r, baseColor.g, baseColor.b, << "0", ".", "5" >>),
   outer  |-> RgbaString(baseColor.r, baseColor.g, baseColor.b, << "0", ".", "1", "5" >>),
   hex    |-> baseColor.hex]

\* getHeatmapGradient(speedMbps)
getHeatmapGradient(speed) == GradientOf(getSpeedColorComponents(speed))

(***************************************************************************)
(* Speed classifier                                                        *)
(***************************************************************************)
\* getSpeedLabel with exclusive lower bounds
getSpeedLabel_Exclusive(speed) ==
  IF speed > SPEED_THRESHOLDS.EXCELLENT THEN "Excellent"
  ELSE IF speed > SPEED_THRESHOLDS.GOOD THEN "Good"
  ELSE IF speed > SPEED_THRESHOLDS.FAIR THEN "Fair"
  ELSE IF speed > SPEED_THRESHOLDS.POOR THEN "Poor"
  ELSE IF speed > SPEED_THRESHOLDS.VERY_POOR THEN "Very Poor"
  ELSE "No Signal"

\* getSpeedLabel(speedMbps)
getSpeedLabel(speed) ==
  IF speed >= SPEED_THRESHOLDS.EXCELLENT THEN "Excellent"
  ELSE IF speed >= SPEED_THRESHOLDS.GOOD THEN "Good"
  ELSE IF speed >= SPEED_THRESHOLDS.FAIR THEN "Fair"
  ELSE IF speed >= SPEED_THRESHOLDS.POOR THEN "Poor"
  ELSE IF speed >= SPEED_THRESHOLDS.VERY_POOR THEN "Very Poor"
  ELSE "No Signal"

(***************************************************************************)
(* Statistics aggregator                                                   *)
(***************************************************************************)
\* JavaScript's Infinity, above every speed and every sum of speeds
Infinity == 2147483647

\* dataPoints.map((p) => p.speed)
SpeedsOf(points) == [i \in 1..Len(points) |-> points[i].speed]

RECURSIVE SumOf(_)
\* speeds.reduce((a, b) => a + b, 0)
SumOf(speeds) ==
  IF Len(speeds) = 0 THEN 0
  ELSE SumOf(SubSeq(speeds, 1, Len(speeds) - 1)) + speeds[Len(speeds)]

\* Math.min(...speeds)
MathMinOf(speeds) ==
  IF Len(speeds) = 0 THEN Infinity
  ELSE CHOOSE m \in { speeds[i] : i \in 1..Len(speeds) } :
         \A i \in 1..Len(speeds) : m <= speeds[i]

\* Math.max(...speeds)
MathMaxOf(speeds) ==
  IF Len(speeds) = 0 THEN 0 - Infinity
  ELSE CHOOSE m \in { speeds[i] : i \in 1..Len(speeds) } :
         \A i \in 1..Len(speeds) : m >= speeds[i]

\* dataPoints.filter(keep).length
CountWhere(points, keep(_)) ==
  Cardinality({ i \in 1..Len(points) : keep(points[i]) })

\* the five tier counts of calculateStats
StatsExcellent(points) ==
  LET keep(p) == p.speed >= SPEED_THRESHOLDS.EXCELLENT
  IN  CountWhere(points, keep)

StatsGood(points) ==
  LET keep(p) == p.speed >= SPEED_THRESHOLDS.GOOD /\ p.speed < SPEED_THRESHOLDS.EXCELLENT
  IN  CountWhere(points, keep)

\* the fair filter with an inclusive upper bound
StatsFair_Inclusive(points) ==
  LET keep(p) == p.speed >= SPEED_THRESHOLDS.FAIR /\ p.speed <= SPEED_THRESHOLDS.GOOD
  IN  CountWhere(points, keep)

StatsFair(points) ==
  LET keep(p) == p.speed >= SPEED_THRESHOLDS.FAIR /\ p.speed < SPEED_THRESHOLDS.GOOD
  IN  CountWhere(points, keep)

StatsPoor(points) ==
  LET keep(p) == p.speed >= SPEED_THRESHOLDS.POOR /\ p.speed < SPEED_THRESHOLDS.FAIR
  IN  CountWhere(points, keep)

StatsVeryPoor(points) ==
  LET keep(p) == p.speed < SPEED_THRESHOLDS.POOR
  IN  CountWhere(points, keep)

\* the non-empty branch with Math.min and Math.max exchanged
StatsOfPoints_MinMaxSwapped(points) ==
  LET speeds == SpeedsOf(points)
      sum == SumOf(speeds)
  IN  [count |-> Len(points),
       average |-> Frac(sum, Len(speeds)),
       min |-> MathMaxOf(speeds),
       max |-> MathMinOf(speeds),
       excellent |-> StatsExcellent(points),
       good |-> StatsGood(points),
       fair |-> StatsFair(points),
       poor |-> StatsPoor(points),
       veryPoor |-> StatsVeryPoor(points)]

\* the non-empty branch of calculateStats
StatsOfPoints(points) ==
  LET speeds == SpeedsOf(points)
      sum == SumOf(speeds)
  IN  [count |-> Len(points),
       average |-> Frac(sum, Len(speeds)),
       min |-> MathMinOf(speeds),
       max |-> MathMaxOf(speeds),
       excellent |-> StatsExcellent(points),
       good |-> StatsGood(points),
       fair |-> StatsFair(points),
       poor |-> StatsPoor(points),
       veryPoor |-> StatsVeryPoor(points)]

\* calculateStats without the guard for the empty list
calculateStats_NoGuard(points) == StatsOfPoints(points)

\* calculateStats(dataPoints)
calculateStats(points) ==
  IF Len(points) = 0
  THEN [count |-> 0, average |-> Frac(0, 1), min |-> 0, max |-> 0,
        excellent |-> 0, good |-> 0, fair |-> 0, poor |-> 0, veryPoor |-> 0]
  ELSE StatsOfPoints(points)

\* the Poor line printing the poor field alone
PanelPoorCount_PoorOnly(stats) == stats.poor

\* the count StatsPanel prints after "Poor:"
PanelPoorCount(stats) == stats.poor + stats.veryPoor

\* const buckets = 10
buckets == 10

\* the bucket index without the clamp to the last bucket
BucketIndex_Unclamped(speed) == (speed * buckets) \div MAX_SPEED

\* Math.min(Math.floor((point.speed / MAX_SPEED) * buckets), buckets - 1)
BucketIndex(speed) == MathMin2((speed * buckets) \div MAX_SPEED, buckets - 1)

\* distribution after the forEach: entry b + 1 counts the points of bucket b
Distribution(points) ==
  [b \in 1..buckets |->
     Cardinality({ i \in 1..Len(points) : BucketIndex(points[i].speed) = b - 1 })]

\* Math.max(...distribution, 1)
MaxCount(distribution) == MathMaxOf(distribution \o << 1 >>)

\* the bar height as a share of all the samples
BarHeight_OfTotal(count, distribution, maxCount) ==
  Frac(count * 100, MathMax2(SumOf(distribution), 1))

\* (count / maxCount) * 100, as an exact fraction
BarHeight(count, distribution, maxCount) == Frac(count * 100, maxCount)

\* ((index + 0.5) / buckets) * MAX_SPEED, for the 0-based index
BarSpeed(index) == ((2 * index + 1) * MAX_SPEED) \div (2 * buckets)

\* distribution.map((count, index) => ({ count, height, speed, color }))
HistogramBars(distribution, maxCount) ==
  [b \in 1..buckets |->
     [count |-> distribution[b],
      height |-> BarHeight(distribution[b], distribution, maxCount),
      speed |-> BarSpeed(b - 1),
      color |-> getSpeedColor(BarSpeed(b - 1), 100)]]

\* the histogram memo of StatsPanel
Histogram(points) ==
  IF Len(points) = 0 THEN << >>
  ELSE HistogramBars(Distribution(points), MaxCount(Distribution(points)))

\* what StatsPanel shows for its dataPoints: the placeholder when there are
\* none, else the counts of the Coverage Quality legend and the histogram
StatsPanel(points) ==
  LET stats == calculateStats(points)
  IN  IF stats.count = 0
      THEN [noData |-> TRUE, stats |-> stats, histogram |-> Histogram(points),
            excellent |-> 0, good |-> 0, fair |-> 0, poor |-> 0]
      ELSE [noData |-> FALSE, stats |-> stats, histogram |-> Histogram(points),
            excellent |-> stats.excellent, good |-> stats.good,
            fair |-> stats.fair, poor |-> PanelPoorCount(stats)]

(***************************************************************************)
(* Geo projection                                                          *)
(***************************************************************************)
\* geoToScreen with the y axis not inverted
geoToScreen_NoFlip(latitude, longitude, region, width, height) ==
  [x |-> Frac((2 * longitude - (2 * region.longitude - region.longitudeDelta)) * width,
              2 * region.longitudeDelta),
   y |-> Frac((2 * latitude - (2 * region.latitude - region.latitudeDelta)) * height,
              2 * region.latitudeDelta)]

\* geoToScreen(latitude, longitude, region, width, height): x and y as exact
\* fractions, numerator and denominator both doubled so that delta / 2 is whole
geoToScreen(latitude, longitude, region, width, height) ==
  [x |-> Frac((2 * longitude - (2 * region.longitude - region.longitudeDelta)) * width,
              2 * region.longitudeDelta),
   y |-> Frac((2 * region.latitude + region.latitudeDelta - 2 * latitude) * height,
              2 * region.latitudeDelta)]


(***************************************************************************)
(* Web MapView                                                             *)
(***************************************************************************)
\* JavaScript's undefined, where a region, a size or a coordinate is expected
Undefined == [undefined |-> TRUE]

\* zoom levels are kept in units of 1 / ZoomScale
ZoomScale == 1000

\* latitudeDelta and longitudeDelta are kept in units of 1 / DegScale degree
DegScale == 1000000

\* const DEFAULT_ZOOM = 15
DEFAULT_ZOOM == 15

\* the zoom clamp Math.min(Math.max(newZoom, 1), 20)
MinZoom == 1

MaxZoom == 20

\* the latitude spans of the regions: 0.0001, 0.005 (animateToRegion of the
\* app), 0.01 (initialRegion of the app), 1, 45, 180 and 200 degrees
LatitudeDeltas == {100, 5000, 10000, 1000000, 45000000, 180000000, 200000000}

\* Math.log2(360 / latitudeDelta), rounded to 1 / ZoomScale
MathLog2Of360Over(latitudeDelta) ==
  CASE latitudeDelta = 100 -> 21780
    [] latitudeDelta = 5000 -> 16136
    [] latitudeDelta = 10000 -> 15136
    [] latitudeDelta = 1000000 -> 8492
    [] latitudeDelta = 45000000 -> 3000
    [] latitudeDelta = 180000000 -> 1000
    [] latitudeDelta = 200000000 -> 848

\* the zoom of a region without the clamp
ZoomOfRegion_Unclamped(region) == MathLog2Of360Over(region.latitudeDelta)

\* Math.min(Math.max(Math.log2(360 / region.latitudeDelta), 1), 20)
ZoomOfRegion(region) ==
  MathMin2(MathMax2(MathLog2Of360Over(region.latitudeDelta), MinZoom * ZoomScale),
           MaxZoom * ZoomScale)

\* the props cloneWithProps hands to every child of the MapView
ChildProps(region, dimensions, zoom) ==
  [_region |-> region, _dimensions |-> dimensions, _zoom |-> zoom]


(***************************************************************************)
(* Map overlays: Circle, Polyline, Marker and CanvasHeatmap                *)
(***************************************************************************)
\* the result of a render that returns null
Null == [null |-> TRUE]

\* the outcome of reading a property of undefined
TypeError == [threw |-> "TypeError"]

\* a JavaScript array
JSArray(seq) == [length |-> Len(seq), items |-> seq]

\* the call latLngToPixel(lat, lng, centerLat, centerLng, zoom, width, height)
\* that positions an overlay; zoom is _zoom || DEFAULT_ZOOM, an absent _zoom is 0
PixelOf(coordinate, region, zoom, dimensions) ==
  [lat |-> coordinate.latitude, lng |-> coordinate.longitude,
   centerLat |-> region.latitude, centerLng |-> region.longitude,
   zoom |-> IF zoom # 0 THEN zoom ELSE DEFAULT_ZOOM * ZoomScale,
   width |-> dimensions.width, height |-> dimensions.height]

\* Circle past its guard: it reads the fields of center, _region, _dimensions
CircleBody(props) ==
  IF props._region = Undefined \/ props._dimensions = Undefined \/ props.center = Undefined
  THEN TypeError
  ELSE [element |-> "SvgCircle",
        at |-> PixelOf(props.center, props._region, props._zoom, props._dimensions)]

\* Circle without its guard
Circle_NoGuard(props) == CircleBody(props)

\* Circle(props)
Circle(props) ==
  IF props._region = Undefined \/ props._dimensions = Undefined \/ props.center = Undefined
  THEN Null
  ELSE CircleBody(props)

\* Polyline past its guard
PolylineBody(props) ==
  IF props._region = Undefined \/ props._dimensions = Undefined \/ props.coordinates = Undefined
  THEN TypeError
  ELSE [element |-> "SvgPolyline",
        at |-> [i \in 1..props.coordinates.length |->
                  PixelOf(props.coordinates.items[i], props._region, props._zoom,
                          props._dimensions)]]

\* Polyline(props)
Polyline(props) ==
  IF props._region = Undefined \/ props._dimensions = Undefined
       \/ props.coordinates = Undefined
  THEN Null
  ELSE IF props.coordinates.length < 2 THEN Null ELSE PolylineBody(props)

\* Marker past its guard
MarkerBody(props) ==
  IF props._region = Undefined \/ props._dimensions = Undefined \/ props.center = Undefined
  THEN TypeError
  ELSE [element |-> "G",
        at |-> PixelOf(props.center, props._region, props._zoom, props._dimensions)]

\* Marker(props), its coordinate being the center prop of the model
Marker(props) ==
  IF props._region = Undefined \/ props._dimensions = Undefined \/ props.center = Undefined
  THEN Null
  ELSE MarkerBody(props)

\* the point of CanvasHeatmap.screenPoints for one data point
ScreenPointOf(point, region, width, height) ==
  [latitude |-> point.latitude, longitude |-> point.longitude,
   x |-> geoToScreen(point.latitude, point.longitude, region, width, height).x,
   y |-> geoToScreen(point.latitude, point.longitude, region, width, height).y]

\* the screenPoints memo of CanvasHeatmap; a null region is Undefined here
ScreenPoints(dataPoints, region, width, height) ==
  IF region = Undefined THEN << >>
  ELSE [i \in 1..Len(dataPoints) |-> ScreenPointOf(dataPoints[i], region, width, height)]


(***************************************************************************)
(* Haversine distance                                                      *)
(***************************************************************************)
\* latitudes and longitudes are whole degrees on a grid of 60 degrees, where
\* every term of the haversine formula is an exact fraction
GridStep == 60

\* const R = 6371e3
EarthRadius == 6371000

\* radians are kept in units of 1 / RadScale
RadScale == 10000

\* JavaScript's NaN, which no distance equals
NaN == 0 - 1

\* n modulo 360 for a whole number of degrees of either sign
Mod360(n) == ((n % 360) + 360) % 360

\* Math.sin(x) * Math.sin(x) for x = delta / 2, delta a multiple of 60
\* degrees, in quarters: sin^2 of 0, 30, 60, 90 degrees is 0, 1/4, 3/4, 1
SinTimesSin(delta) ==
  CASE Mod360(delta) = 0 -> 0
    [] Mod360(delta) \in {60, 300} -> 1
    [] Mod360(delta) \in {120, 240} -> 3
    [] Mod360(delta) = 180 -> 4

\* Math.cos of a latitude of -60, 0 or 60 degrees, in halves
MathCos(lat) == IF lat = 0 THEN 2 ELSE 1

\* 2 * Math.atan2(Math.sqrt(a), Math.sqrt(1 - a)) for a in sixteenths,
\* rounded to 1 / RadScale radian
\* (Math.sqrt(1 - a) is NaN for a above 1, and so is all that follows)
CentralAngle(a16) ==
  IF a16 > 16 THEN NaN
  ELSE << 0, 5054, 7227, 8957, 10472, 11864, 13181, 14455, 15708, 16961, 18235,
          19552, 20944, 22459, 24189, 26362, 31416 >>[a16 + 1]

\* a of calculateDistance with cos(phi1) taken twice
HaversineA_OneLatitude(lat1, lon1, lat2, lon2) ==
  4 * SinTimesSin(lat2 - lat1)
    + MathCos(lat1) * MathCos(lat1) * SinTimesSin(lon2 - lon1)

\* a of calculateDistance, in sixteenths:
\* sin(dphi/2) * sin(dphi/2) + cos(phi1) * cos(phi2) * sin(dlambda/2) * sin(dlambda/2)
HaversineA(lat1, lon1, lat2, lon2) ==
  4 * SinTimesSin(lat2 - lat1)
    + MathCos(lat1) * MathCos(lat2) * SinTimesSin(lon2 - lon1)

\* calculateDistance(lat1, lon1, lat2, lon2) in metres: R * c
DistanceOfAngle(c) ==
  IF c = NaN THEN NaN
  ELSE ((EarthRadius \div 1000) * c) \div (RadScale \div 1000)

\* calculateDistance(lat1, lon1, lat2, lon2)
calculateDistance(lat1, lon1, lat2, lon2) ==
  DistanceOfAngle(CentralAngle(HaversineA(lat1, lon1, lat2, lon2)))


(***************************************************************************)
(* The tracking app (App.tsx)                                              *)
(***************************************************************************)
\* coordinates of the app are kept in units of 1 / CoordScale degree
CoordScale == 100000

\* a position
Coordinates(latitude, longitude) == [latitude |-> latitude, longitude |-> longitude]

\* DEMO_CONFIG.startLocation: 37.7749, -122.4194
StartLocation == Coordinates(3777490, 0 - 12241940)

\* the speeds getSimulatedNetworkSpeed returns, between 0 and 100
DemoSpeeds == {5, 80}

\* one step of the walk: the change of position for the direction and the
\* speed variation that Math.random() gave, and distanceMeters in tenths
DemoMoves ==
  { [deltaLat |-> 1, deltaLng |-> 0, distance |-> 14],
    [deltaLat |-> 0, deltaLng |-> 1, distance |-> 12] }

\* the data point recorded for a position and a speed; its colour and its
\* gradient are getSpeedColor(speed) and getHeatmapGradient(speed)
DataPoint(latitude, longitude, speed) ==
  [latitude |-> latitude, longitude |-> longitude, speed |-> speed]

\* the path entry with its coordinates swapped
PathPoint_Swapped(latitude, longitude) == Coordinates(longitude, latitude)

\* the { latitude, longitude } appended to pathCoordinates with a data point
PathPoint(latitude, longitude) == Coordinates(latitude, longitude)

\* the region { latitude, longitude, 0.005, 0.005 } handed to animateToRegion
RegionAround(latitude, longitude) ==
  [latitude |-> latitude, longitude |-> longitude,
   latitudeDelta |-> 5000, longitudeDelta |-> 5000]

\* the position of the n-th location fix of the device
DevicePosition(n) == Coordinates(StartLocation.latitude + n, StartLocation.longitude)

\* what measureNetworkSpeed does: it sets networkType and networkSpeed and
\* returns the speed, or it catches an error, sets nothing and returns 0
MeasureOutcomes ==
  { [ok |-> TRUE, type |-> "wifi", speed |-> 42],
    [ok |-> TRUE, type |-> "none", speed |-> 0],
    [ok |-> FALSE, type |-> "unknown", speed |-> 0] }

\* the states NetInfo reports to its listeners, with their estimated speed
NetStates == { [type |-> "wifi", speed |-> 50], [type |-> "none", speed |-> 0] }

\* a startTracking call in flight: the await it stands at, its
\* initialLocation and the watch it asked for
StartCall(pc, fix, watch) == [pc |-> pc, fix |-> fix, watch |-> watch]

\* the bag of calls after one of them moved on, or ended
CallsAfter(calls, call, next) == (calls (-) SetToBag({call})) (+) next

\* startDemoSimulation initialising on every call
NeedsInitialPoint_Always(ref) == TRUE

\* !lastDemoLocationRef.current in startDemoSimulation
NeedsInitialPoint(ref) == ref = Null

\* startDemoSimulation without the clearInterval of the interval it holds
IntervalsAfterClear_Kept(scheduled, ref) == scheduled

\* if (demoIntervalRef.current) clearInterval(demoIntervalRef.current)
IntervalsAfterClear(scheduled, ref) == IF ref # 0 THEN scheduled \ {ref} ELSE scheduled

\* resetDemoSimulation leaving the reference cleared
LastDemoLocationAfterReset_Cleared == Null

\* lastDemoLocationRef.current at the end of resetDemoSimulation
LastDemoLocationAfterReset == StartLocation


(***************************************************************************)
(* The round-robin test endpoints of useNetworkSpeed and of App           *)
(***************************************************************************)
TestEndpoint(url) == [url |-> url, method |-> "GET"]

TEST_ENDPOINTS == <<
  TestEndpoint("https://www.google.com/generate_204"),
  TestEndpoint("https://www.gstatic.com/generate_204"),
  TestEndpoint("https://connectivitycheck.gstatic.com/generate_204"),
  TestEndpoint("https://www.apple.com/library/test/success.html"),
  TestEndpoint("https://captive.apple.com/hotspot-detect.html"),
  TestEndpoint("https://www.msftconnecttest.com/connecttest.txt"),
  TestEndpoint("https://dns.msftncsi.com/ncsi.txt"),
  TestEndpoint("https://cloudflare.com/cdn-cgi/trace"),
  TestEndpoint("https://1.1.1.1/cdn-cgi/trace"),
  TestEndpoint("https://httpbin.org/get") >>

\* TEST_ENDPOINTS of App.tsx: its own list, of plain strings
APP_TEST_ENDPOINTS == <<
  "https://www.google.com/generate_204",
  "https://www.gstatic.com/generate_204",
  "https://connectivitycheck.gstatic.com/generate_204",
  "https://www.apple.com/library/test/success.html",
  "https://captive.apple.com/hotspot-detect.html",
  "https://www.msftconnecttest.com/connecttest.txt",
  "https://cloudflare.com/cdn-cgi/trace",
  "https://1.1.1.1/cdn-cgi/trace" >>

\* the two files that each hold a TEST_ENDPOINTS, a currentEndpointIndex and
\* a getNextEndpoint of their own
EndpointFiles == {"useNetworkSpeed.ts", "App.tsx"}

\* the TEST_ENDPOINTS in scope in a file
EndpointsOf(file) ==
  IF file = "App.tsx" THEN APP_TEST_ENDPOINTS ELSE TEST_ENDPOINTS

\* the functions of a file that call its getNextEndpoint: performSpeedTest in
\* App.tsx; performLatencyTest in the hook, run by measureSpeed or as one of
\* the three parallel tests of performMultiLatencyTest
EndpointCallers(file) ==
  IF file = "App.tsx" THEN {"performSpeedTest"}
  ELSE {"measureSpeed", "performMultiLatencyTest"}

\* endpoints[index] for the 0-based index of the code
EndpointAt(endpoints, index) ==
  IF index + 1 \in DOMAIN endpoints THEN endpoints[index + 1] ELSE Undefined

\* getNextEndpoint advancing the index without the modulo
getNextEndpoint_NoWrap(endpoints, index) ==
  [endpoint |-> EndpointAt(endpoints, index), index |-> index + 1]

\* getNextEndpoint(): the endpoint returned and the new currentEndpointIndex
getNextEndpoint(endpoints, index) ==
  [endpoint |-> EndpointAt(endpoints, index), index |-> (index + 1) % Len(endpoints)]

\* null where the code holds a number or null (speeds are never negative)
NullSpeed == 0 - 1

\* a promise that has not settled yet
PendingSpeed == 0 - 2

\* the latencies, in ms, a fetch that succeeds may take
Latencies == {10, 2000}

\* what the fetch of a probe does: it resolves after a latency, or it rejects
\* (network error, or abort after the 5 s timeout)
FetchOutcomes ==
  { [ok |-> TRUE, latency |-> l] : l \in Latencies } \cup { [ok |-> FALSE, latency |-> 0] }

\* the speed performLatencyTest maps a latency to
LatencySpeed(latency) ==
  IF latency < 30 THEN 100
  ELSE IF latency < 50 THEN 80
  ELSE IF latency < 80 THEN 60
  ELSE IF latency < 120 THEN 45
  ELSE IF latency < 200 THEN 30
  ELSE IF latency < 350 THEN 20
  ELSE IF latency < 500 THEN 12
  ELSE IF latency < 800 THEN 7
  ELSE IF latency < 1200 THEN 4
  ELSE 1

\* what performLatencyTest returns once its fetch has settled
LatencyTestResult(outcome) ==
  IF outcome.ok THEN LatencySpeed(outcome.latency) ELSE NullSpeed

RECURSIVE InsertSorted(_, _)
\* a sorted list with one more number
InsertSorted(sorted, x) ==
  IF sorted = << >> THEN << x >>
  ELSE IF x <= Head(sorted) THEN << x >> \o sorted
  ELSE << Head(sorted) >> \o InsertSorted(Tail(sorted), x)

RECURSIVE SortAscending(_)
\* validResults.sort((a, b) => a - b)
SortAscending(numbers) ==
  IF numbers = << >> THEN << >>
  ELSE InsertSorted(SortAscending(Tail(numbers)), Head(numbers))

\* a probe result that counts as a value
IsValidResult(r) == r # NullSpeed

\* performMultiLatencyTest returning the first valid result it finds
MultiTestResult_OfAll(results) ==
  IF \E i \in 1..Len(results) : results[i] = NullSpeed THEN NullSpeed
  ELSE SortAscending(results)[(Len(results) \div 2) + 1]

\* what performMultiLatencyTest returns for the settled results of its probes
MultiTestResult(results) ==
  IF SelectSeq(results, IsValidResult) = << >> THEN NullSpeed
  ELSE SortAscending(SelectSeq(results, IsValidResult))
         [(Len(SelectSeq(results, IsValidResult)) \div 2) + 1]

\* the three probes sharing one call of getNextEndpoint
ThreeProbes_OneCall(endpoints, index) ==
  [endpoints |-> << getNextEndpoint(endpoints, index).endpoint,
                    getNextEndpoint(endpoints, index).endpoint,
                    getNextEndpoint(endpoints, index).endpoint >>,
   index |-> getNextEndpoint(endpoints, index).index]

\* the three performLatencyTest() calls of the tests array: each runs up to
\* its fetch, so the three getNextEndpoint calls follow one another
ThreeProbes(endpoints, index) ==
  [endpoints |-> << getNextEndpoint(endpoints, index).endpoint,
                    getNextEndpoint(endpoints, getNextEndpoint(endpoints, index).index).endpoint,
                    getNextEndpoint(endpoints,
                      getNextEndpoint(endpoints, getNextEndpoint(endpoints, index).index).index).endpoint >>,
   index |-> getNextEndpoint(endpoints,
               getNextEndpoint(endpoints, getNextEndpoint(endpoints, index).index).index).index]

\* a performMultiLatencyTest call: the endpoints of its probes, their
\* results, and what the call returned
MultiTest(endpoints, results, returned) ==
  [endpoints |-> endpoints, results |-> results, returned |-> returned]


(***************************************************************************)
(* The mock authentication service, the AuthProvider and the login screen  *)
(***************************************************************************)
\* strings whose characters the code looks at are sequences of characters
ExampleCom == << "@", "e", "x", "a", "m", "p", "l", "e", ".", "c", "o", "m" >>

\* 'test@example.com', the email of TEST_USER and of TEST_CREDENTIALS
TestEmail == << "t", "e", "s", "t" >> \o ExampleCom

\* 'password123', the password of TEST_USER and of TEST_CREDENTIALS
TestPassword == "password123"

UpperCaseChars ==
  << "A", "B", "C", "D", "E", "F", "G", "H", "I", "J", "K", "L", "M",
     "N", "O", "P", "Q", "R", "S", "T", "U", "V", "W", "X", "Y", "Z" >>

LowerCaseChars ==
  << "a", "b", "c", "d", "e", "f", "g", "h", "i", "j", "k", "l", "m",
     "n", "o", "p", "q", "r", "s", "t", "u", "v", "w", "x", "y", "z" >>

\* one character of toLowerCase()
LowerCaseChar(c) ==
  IF \E i \in 1..26 : UpperCaseChars[i] = c
  THEN LowerCaseChars[CHOOSE i \in 1..26 : UpperCaseChars[i] = c]
  ELSE c

\* str.toLowerCase()
ToLowerCase(str) == [i \in 1..Len(str) |-> LowerCaseChar(str[i])]

\* \s of a regular expression, and the characters trim() removes
IsWhiteSpace(c) == c \in {" ", "\t", "\n", "\r"}

RECURSIVE TrimStart(_)
TrimStart(str) ==
  IF str # << >> /\ IsWhiteSpace(Head(str)) THEN TrimStart(Tail(str)) ELSE str

RECURSIVE TrimEnd(_)
TrimEnd(str) ==
  IF str # << >> /\ IsWhiteSpace(str[Len(str)])
  THEN TrimEnd(SubSeq(str, 1, Len(str) - 1))
  ELSE str

\* str.trim()
Trim(str) == TrimEnd(TrimStart(str))

\* /^[^\s@]+@[^\s@]+\.[^\s@]+$/.test(email): an "@" after at least one
\* character, a "." at least one character later and before at least one
\* more, and neither white space nor a second "@" anywhere
EmailRegexTest(email) ==
  \E at \in 2..Len(email) :
    /\ email[at] = "@"
    /\ \A i \in 1..Len(email) : i # at => (email[i] # "@" /\ ~IsWhiteSpace(email[i]))
    /\ \E dot \in (at + 2)..(Len(email) - 1) : email[dot] = "."

\* a User; createdAt is not modelled
User(id, email, name) == [id |-> id, email |-> email, name |-> name]

\* TEST_USER
TEST_USER ==
  User("test-user-001", TestEmail, << "T", "e", "s", "t", " ", "U", "s", "e", "r" >>)

\* an entry of MOCK_USERS
Account(user, password) == [user |-> user, password |-> password]

\* MOCK_USERS when the module is loaded
InitialUsers == [key \in {TestEmail} |-> Account(TEST_USER, TestPassword)]

\* generateMockToken(userId); expired tells whether its exp has passed
Token(userId, expired) == [sub |-> userId, expired |-> expired]

\* validateToken(token) for a stored token
validateToken(token) == ~token.expired

\* an AuthResponse that reports a failure
Failure(error) == [success |-> FALSE, error |-> error, user |-> Null, token |-> Null]

\* an AuthResponse that reports a success
Success(user, token) == [success |-> TRUE, error |-> "", user |-> user, token |-> token]

\* LoginCredentials
LoginCredentials(email, password) == [email |-> email, password |-> password]

\* RegisterCredentials
RegisterCredentials(name, email, password, confirmPassword) ==
  [name |-> name, email |-> email, password |-> password,
   confirmPassword |-> confirmPassword]

\* the key looked up as the email was typed
UserKey_AsTyped(email) == email

\* the key of MOCK_USERS for an email: email.toLowerCase()
UserKey(email) == ToLowerCase(email)

\* mockRegister never finding the email taken
EmailTaken_Never(db, email) == FALSE

\* MOCK_USERS.has(email.toLowerCase())
EmailTaken(db, email) == UserKey(email) \in DOMAIN db

\* what mockLogin answers after its delay, before it stores the session
MockLoginResponse(db, credentials) ==
  IF ~EmailRegexTest(credentials.email)
  THEN Failure("Invalid email format")
  ELSE IF ~EmailTaken(db, credentials.email)
  THEN Failure("No account found with this email")
  ELSE IF db[UserKey(credentials.email)].password # credentials.password
  THEN Failure("Incorrect password")
  ELSE Success(db[UserKey(credentials.email)].user,
               Token(db[UserKey(credentials.email)].user.id, FALSE))

\* newUser of mockRegister; the Date.now() in its id is not modelled
NewUser(credentials) ==
  User("user-now", ToLowerCase(credentials.email), Trim(credentials.name))

\* what mockRegister answers after its delay, before it stores the session
MockRegisterResponse(db, credentials) ==
  IF credentials.name = << >> \/ Len(Trim(credentials.name)) < 2
  THEN Failure("Name must be at least 2 characters")
  ELSE IF ~EmailRegexTest(credentials.email)
  THEN Failure("Invalid email format")
  ELSE IF EmailTaken(db, credentials.email)
  THEN Failure("An account with this email already exists")
  ELSE IF Len(credentials.password) < 6
  THEN Failure("Password must be at least 6 characters")
  ELSE IF credentials.password # credentials.confirmPassword
  THEN Failure("Passwords do not match")
  ELSE Success(NewUser(credentials), Token(NewUser(credentials).id, FALSE))

\* MOCK_USERS.set(key, account)
MapSet(db, key, account) ==
  [k \in DOMAIN db \cup {key} |-> IF k = key THEN account ELSE db[k]]

\* MOCK_USERS after mockRegister has answered
UsersAfterRegister(db, credentials) ==
  IF MockRegisterResponse(db, credentials).success
  THEN MapSet(db, UserKey(credentials.email),
              Account(NewUser(credentials), credentials.password))
  ELSE db

\* what getStoredSession() returns for the two stored items
StoredSession(token, userJson) ==
  IF token # Null /\ userJson # Null THEN [user |-> userJson, token |-> token] ELSE Null

\* a call of login, register or logout of the context: where it stands, the
\* LoginScreen instance that made it (0: another consumer of useAuth), its
\* credentials and the response of the service
AuthCall(kind, pc, origin, credentials, response) ==
  [kind |-> kind, pc |-> pc, origin |-> origin, credentials |-> credentials,
   response |-> response]

\* the state of a LoginScreen instance; the text fields are inputs
LoginScreen(instance, error, isSubmitting) ==
  [instance |-> instance, error |-> error, isSubmitting |-> isSubmitting]

\* the user after checkSession: session && await validateToken(session.token)
SessionUser(stored, current) ==
  IF stored # Null /\ validateToken(stored.token) THEN stored.user ELSE current

\* the route after AuthGate's effect has run
RouteAfterEffect(loading, currentUser, current) ==
  IF loading THEN current
  ELSE IF currentUser = Null THEN "login"
  ELSE "app"

\* the LoginScreen after AuthGate has rendered: none behind the spinner or on
\* another route, the mounted instance if it stays mounted, else a new one
ScreenAfterRender(loading, currentUser, current, screen, instance) ==
  IF loading \/ RouteAfterEffect(loading, currentUser, current) # "login" THEN Null
  ELSE IF screen # Null THEN screen
  ELSE LoginScreen(instance, "", FALSE)

(***************************************************************************)
(* State                                                                   *)
(***************************************************************************)
VARIABLES
  speedMbps,      \* the speed handed to the colour and label functions
  opacity,        \* the opacity handed to getSpeedColor, in hundredths
  colorOut,       \* << >>, or << locals and result of getSpeedColor >>
  gradientOut,    \* << >>, or << result of getHeatmapGradient >>
  labelOut,       \* << >>, or << result of getSpeedLabel >>
  normalizedIn,   \* the normalized value handed to the stop lookup
  stopsOut,       \* << >>, or << stops chosen and colour interpolated >>
  panelPoints,    \* the dataPoints prop of StatsPanel
  panelOut,       \* << >>, or << what StatsPanel rendered >>
  geoIn,          \* the arguments handed to geoToScreen
  geoOut,         \* << >>, or << result of geoToScreen >>
  mapRegion,      \* the region state of the web MapView, or Undefined
  mapDimensions,  \* the dimensions state of the web MapView
  mapZoom,        \* the zoom state of the web MapView
  mapRegionFresh, \* region was set since the last render
  mapNeedsRender, \* a state update awaits its render
  mapEffectDue,   \* the zoom effect of the last render has not run yet
  mapRendered,    \* << >>, or << props the last render handed to the children >>
  overlayIn,      \* the props handed to the overlays
  circleOut,      \* << >>, or << result of Circle >>
  polylineOut,    \* << >>, or << result of Polyline >>
  markerOut,      \* << >>, or << result of Marker >>
  heatmapOut,     \* << >>, or << screenPoints of CanvasHeatmap >>
  distIn,         \* the two points handed to calculateDistance
  distOut,        \* << >>, or << calculateDistance(first, second) >>
  distBackOut,    \* << >>, or << calculateDistance(second, first) >>
  isWeb,          \* IS_WEB: Platform.OS is web
  mountPc,        \* where the mount effect stands
  demoModeEnabled,\* state demoModeEnabled
  location,       \* state location: Null, or the position of the location object
  errorMsg,       \* state errorMsg, "" for null
  isTracking,     \* state isTracking
  isSimulating,   \* state isSimulating
  networkSpeed,   \* state networkSpeed
  networkType,    \* state networkType
  simulatedSpeed, \* state simulatedSpeed
  dataPoints,     \* state dataPoints
  pathCoordinates,\* state pathCoordinates
  totalDistance,  \* state totalDistance, in tenths of a metre
  demoIntervalRef,\* demoIntervalRef.current: 0 for null, or an interval id
  lastDemoLocationRef,\* lastDemoLocationRef.current: Null, or a position
  intervals,      \* the ids of the intervals scheduled by setInterval
  nextIntervalId, \* the id the next setInterval returns
  mapTarget,      \* << >>, or << region last handed to mapRef.animateToRegion >>
  locationSubscription,\* locationSubscription.current: 0 for null, or a watch id
  netInfoSubscription,\* netInfoSubscription.current: 0 for null, or a listener id
  watches,        \* the ids of the active location watches
  listeners,      \* the ids of the active NetInfo listeners
  nextSubscriptionId,\* the id of the next watch and listener
  startCalls,     \* the bag of startTracking calls in flight: where each stands
  callbacks,      \* the fixes whose callbacks await measureNetworkSpeed
  fixCount,       \* the location fixes the device has produced
  clearAlert,     \* the Clear Data alert is open
  endpointFile,        \* the file whose endpoint rotation is followed
  currentEndpointIndex,\* the module-level currentEndpointIndex of that file
  endpointLog,    \* the calls of getNextEndpoint so far: caller and endpoint returned
  multiTests,     \* the performMultiLatencyTest calls so far
  singleTests,    \* the results of the single performLatencyTest calls so far
  MOCK_USERS,     \* the user database of mockAuth: lower-cased email to account
  authToken,      \* the item stored under AUTH_TOKEN_KEY, or Null
  userJson,       \* the item stored under USER_KEY, or Null
  user,           \* the user of the AuthProvider, or Null
  isLoading,      \* isLoading of the AuthProvider
  sessionPc,      \* where checkSession of the mount effect stands
  authCalls,      \* the login, register and logout calls, in the order they were made
  route,          \* the route shown: "index", "login" or "app"
  loginScreen,    \* the mounted LoginScreen, or Null
  nextInstance    \* the number the next LoginScreen instance gets

speedVars == << speedMbps, opacity, colorOut, gradientOut, labelOut >>

stopVars == << normalizedIn, stopsOut >>

panelVars == << panelPoints, panelOut >>

geoVars == << geoIn, geoOut >>

mapVars == << mapRegion, mapDimensions, mapZoom, mapRegionFresh, mapNeedsRender, mapEffectDue, mapRendered >>

overlayVars == << overlayIn, circleOut, polylineOut, markerOut, heatmapOut >>

distVars == << distIn, distOut, distBackOut >>

appVars == << isWeb, mountPc, demoModeEnabled, location, errorMsg, isTracking, isSimulating, networkSpeed, networkType, simulatedSpeed, dataPoints, pathCoordinates, totalDistance, demoIntervalRef, lastDemoLocationRef, intervals, nextIntervalId, mapTarget, locationSubscription, netInfoSubscription, watches, listeners, nextSubscriptionId, startCalls, callbacks, fixCount, clearAlert >>

endpointVars == << endpointFile, currentEndpointIndex, endpointLog, multiTests, singleTests >>

authVars == << MOCK_USERS, authToken, userJson, user, isLoading, sessionPc, authCalls, route, loginScreen, nextInstance >>

vars == << speedVars, stopVars, panelVars, geoVars, mapVars, overlayVars, distVars, appVars, endpointVars, authVars >>

\* the variables each group of functions leaves alone
notSpeedVars == << stopVars, panelVars, geoVars, mapVars, overlayVars, distVars, appVars, endpointVars, authVars >>

notStopVars == << speedVars, panelVars, geoVars, mapVars, overlayVars, distVars, appVars, endpointVars, authVars >>

notPanelVars == << speedVars, stopVars, geoVars, mapVars, overlayVars, distVars, appVars, endpointVars, authVars >>

notGeoVars == << speedVars, stopVars, panelVars, mapVars, overlayVars, distVars, appVars, endpointVars, authVars >>

notMapVars == << speedVars, stopVars, panelVars, geoVars, overlayVars, distVars, appVars, endpointVars, authVars >>

notOverlayVars == << speedVars, stopVars, panelVars, geoVars, mapVars, distVars, appVars, endpointVars, authVars >>

notDistVars == << speedVars, stopVars, panelVars, geoVars, mapVars, overlayVars, appVars, endpointVars, authVars >>

notAppVars == << speedVars, stopVars, panelVars, geoVars, mapVars, overlayVars, distVars, endpointVars, authVars >>

notEndpointVars == << speedVars, stopVars, panelVars, geoVars, mapVars, overlayVars, distVars, appVars, authVars >>

notAuthVars == << speedVars, stopVars, panelVars, geoVars, mapVars, overlayVars, distVars, appVars, endpointVars >>

IdleSpeed ==
  /\ speedMbps = 0
  /\ opacity = 60
  /\ colorOut = << >>
  /\ gradientOut = << >>
  /\ labelOut = << >>

IdleStops ==
  /\ normalizedIn = 0
  /\ stopsOut = << >>

IdlePanel ==
  /\ panelPoints = << >>
  /\ panelOut = << >>

IdleGeo ==
  /\ geoIn = << >>
  /\ geoOut = << >>

IdleMap ==
  /\ mapRegion = Undefined
  /\ mapDimensions = [width |-> 400, height |-> 300]
  /\ mapZoom = DEFAULT_ZOOM * ZoomScale
  /\ mapRegionFresh = FALSE
  /\ mapNeedsRender = FALSE
  /\ mapEffectDue = FALSE
  /\ mapRendered = << >>

IdleOverlay ==
  /\ overlayIn = << >>
  /\ circleOut = << >>
  /\ polylineOut = << >>
  /\ markerOut = << >>
  /\ heatmapOut = << >>

IdleDist ==
  /\ distIn = << >>
  /\ distOut = << >>
  /\ distBackOut = << >>

IdleApp ==
  /\ isWeb = FALSE
  /\ mountPc = "unmounted"
  /\ demoModeEnabled = FALSE
  /\ location = Null
  /\ errorMsg = ""
  /\ isTracking = FALSE
  /\ isSimulating = FALSE
  /\ networkSpeed = 0
  /\ networkType = "unknown"
  /\ simulatedSpeed = 35
  /\ dataPoints = << >>
  /\ pathCoordinates = << >>
  /\ totalDistance = 0
  /\ demoIntervalRef = 0
  /\ lastDemoLocationRef = Null
  /\ intervals = {}
  /\ nextIntervalId = 1
  /\ mapTarget = << >>
  /\ locationSubscription = 0
  /\ netInfoSubscription = 0
  /\ watches = {}
  /\ listeners = {}
  /\ nextSubscriptionId = 1
  /\ startCalls = EmptyBag
  /\ callbacks = {}
  /\ fixCount = 0
  /\ clearAlert = FALSE

IdleEndpoint ==
  /\ endpointFile = "useNetworkSpeed.ts"
  /\ currentEndpointIndex = 0
  /\ endpointLog = << >>
  /\ multiTests = << >>
  /\ singleTests = << >>

IdleAuth ==
  /\ MOCK_USERS = InitialUsers
  /\ authToken = Null
  /\ userJson = Null
  /\ user = Null
  /\ isLoading = TRUE
  /\ sessionPc = "unmounted"
  /\ authCalls = << >>
  /\ route = "index"
  /\ loginScreen = Null
  /\ nextInstance = 1

(***************************************************************************)
(* The functions of one speed: each action is one call on the input        *)
(***************************************************************************)
InitSpeed ==
  /\ speedMbps \in SpeedInputs
  /\ opacity \in Opacities
  /\ colorOut = << >>
  /\ gradientOut = << >>
  /\ labelOut = << >>
  /\ IdleStops
  /\ IdlePanel
  /\ IdleGeo
  /\ IdleMap
  /\ IdleOverlay
  /\ IdleDist
  /\ IdleApp
  /\ IdleEndpoint
  /\ IdleAuth

CallGetSpeedColor ==
  /\ colorOut = << >>
  /\ colorOut' = << [locals |-> SpeedColorLocals(speedMbps),
                     rgba |-> getSpeedColor(speedMbps, opacity)] >>
  /\ UNCHANGED << speedMbps, opacity, gradientOut, labelOut, notSpeedVars >>

CallGetHeatmapGradient ==
  /\ gradientOut = << >>
  /\ gradientOut' = << getHeatmapGradient(speedMbps) >>
  /\ UNCHANGED << speedMbps, opacity, colorOut, labelOut, notSpeedVars >>

CallGetSpeedLabel ==
  /\ labelOut = << >>
  /\ labelOut' = << getSpeedLabel(speedMbps) >>
  /\ UNCHANGED << speedMbps, opacity, colorOut, gradientOut, notSpeedVars >>

Next ==
  \/ CallGetSpeedColor
  \/ CallGetHeatmapGradient
  \/ CallGetSpeedLabel

Spec == InitSpeed /\ [][Next]_vars

(***************************************************************************)
(* The stop lookup of getSpeedColor on a normalized value                  *)
(***************************************************************************)
NormalizedInputs == { (k * PosScale) \div 200 : k \in 0..NormSteps }

InitStops ==
  /\ normalizedIn \in NormalizedInputs
  /\ stopsOut = << >>
  /\ IdleSpeed
  /\ IdlePanel
  /\ IdleGeo
  /\ IdleMap
  /\ IdleOverlay
  /\ IdleDist
  /\ IdleApp
  /\ IdleEndpoint
  /\ IdleAuth

CallStopLookup ==
  /\ stopsOut = << >>
  /\ stopsOut' = << ColorAtNormalized(normalizedIn) >>
  /\ UNCHANGED << normalizedIn, notStopVars >>

NextStops == CallStopLookup

SpecStops == InitStops /\ [][NextStops]_vars

(***************************************************************************)
(* StatsPanel rendering a list of data points                              *)
(***************************************************************************)
DataPointInputs == [speed : StatSpeeds]

PointLists == UNION { [1..n -> DataPointInputs] : n \in 0..MaxPoints }

InitPanel ==
  /\ panelPoints \in PointLists
  /\ panelOut = << >>
  /\ IdleSpeed
  /\ IdleStops
  /\ IdleGeo
  /\ IdleMap
  /\ IdleOverlay
  /\ IdleDist
  /\ IdleApp
  /\ IdleEndpoint
  /\ IdleAuth

RenderStatsPanel ==
  /\ panelOut = << >>
  /\ panelOut' = << StatsPanel(panelPoints) >>
  /\ UNCHANGED << panelPoints, notPanelVars >>

NextPanel == RenderStatsPanel

SpecPanel == InitPanel /\ [][NextPanel]_vars

(***************************************************************************)
(* geoToScreen on one point, region and viewport                           *)
(***************************************************************************)
\* regions with a positive span in both directions
RegionInputs ==
  [latitude : GeoCoords, longitude : GeoCoords,
   latitudeDelta : 1..MaxSpan, longitudeDelta : 1..MaxSpan]

\* the width and height props of CanvasHeatmap
ViewportInputs == { [width |-> 400, height |-> 300], [width |-> 375, height |-> 300] }

InitGeo ==
  /\ geoIn \in { << [latitude |-> lat, longitude |-> lng, region |-> r,
                      width |-> v.width, height |-> v.height] >> :
                   lat \in GeoCoords, lng \in GeoCoords,
                   r \in RegionInputs, v \in ViewportInputs }
  /\ geoOut = << >>
  /\ IdleSpeed
  /\ IdleStops
  /\ IdlePanel
  /\ IdleMap
  /\ IdleOverlay
  /\ IdleDist
  /\ IdleApp
  /\ IdleEndpoint
  /\ IdleAuth

CallGeoToScreen ==
  /\ geoOut = << >>
  /\ geoOut' = << geoToScreen(geoIn[1].latitude, geoIn[1].longitude,
                              geoIn[1].region, geoIn[1].width, geoIn[1].height) >>
  /\ UNCHANGED << geoIn, notGeoVars >>

NextGeo == CallGeoToScreen

SpecGeo == InitGeo /\ [][NextGeo]_vars


(***************************************************************************)
(* The web MapView: renders, the zoom effect, animateToRegion and layout   *)
(***************************************************************************)
\* the regions handed to MapView: the centre is the demo start, in degrees
MapRegionInputs ==
  { [latitude |-> 37, longitude |-> 0 - 122, latitudeDelta |-> d, longitudeDelta |-> d] :
      d \in LatitudeDeltas }

\* the sizes onLayout reports
LayoutInputs == { [width |-> 400, height |-> 300], [width |-> 800, height |-> 600] }

\* the component before its first render: the useState initial values
InitMap ==
  /\ mapRegion \in MapRegionInputs \cup {Undefined}
  /\ mapDimensions = [width |-> 400, height |-> 300]
  /\ mapZoom = DEFAULT_ZOOM * ZoomScale
  /\ mapRegionFresh = TRUE
  /\ mapNeedsRender = TRUE
  /\ mapEffectDue = FALSE
  /\ mapRendered = << >>
  /\ IdleSpeed
  /\ IdleStops
  /\ IdlePanel
  /\ IdleGeo
  /\ IdleOverlay
  /\ IdleDist
  /\ IdleApp
  /\ IdleEndpoint
  /\ IdleAuth

\* one render of MapView: the children are cloned with the current state, and
\* the effect on [region] is scheduled when region changed since the last render
MapRender ==
  /\ mapNeedsRender
  /\ ~mapEffectDue
  /\ mapRendered' = << ChildProps(mapRegion, mapDimensions, mapZoom) >>
  /\ mapNeedsRender' = FALSE
  /\ mapEffectDue' = mapRegionFresh
  /\ mapRegionFresh' = FALSE
  /\ UNCHANGED << mapRegion, mapDimensions, mapZoom, notMapVars >>

\* the effect of the last render, on the region that render saw
RunZoomEffect ==
  /\ mapEffectDue
  /\ mapEffectDue' = FALSE
  /\ LET region == mapRendered[1]._region
     IN  IF region # Undefined /\ region.latitudeDelta # 0
         THEN /\ mapZoom' = ZoomOfRegion(region)
              /\ mapNeedsRender' = (mapNeedsRender \/ mapZoom' # mapZoom)
         ELSE UNCHANGED << mapZoom, mapNeedsRender >>
  /\ UNCHANGED << mapRegion, mapDimensions, mapRegionFresh, mapRendered, notMapVars >>

\* ref.animateToRegion(newRegion, duration), available once the ref is attached
AnimateToRegion ==
  /\ mapRendered # << >>
  /\ \E newRegion \in MapRegionInputs :
       mapRegion' = newRegion
  /\ mapRegionFresh' = TRUE
  /\ mapNeedsRender' = TRUE
  /\ UNCHANGED << mapDimensions, mapZoom, mapEffectDue, mapRendered, notMapVars >>

\* handleLayout(event)
HandleLayout ==
  /\ mapRendered # << >>
  /\ \E layout \in LayoutInputs :
       mapDimensions' = layout
  /\ mapNeedsRender' = TRUE
  /\ UNCHANGED << mapRegion, mapZoom, mapRegionFresh, mapEffectDue, mapRendered, notMapVars >>

NextMap ==
  \/ MapRender
  \/ RunZoomEffect
  \/ AnimateToRegion
  \/ HandleLayout

SpecMap == InitMap /\ [][NextMap]_vars


(***************************************************************************)
(* The overlays rendered on props that may not be known yet                *)
(***************************************************************************)
\* two coordinates near the demo start, in degrees
OverlayCoordinates ==
  << [latitude |-> 37, longitude |-> 0 - 122], [latitude |-> 38, longitude |-> 0 - 121] >>

\* the coordinates prop of Polyline: absent, or an array of 0, 1 or 2 coordinates
CoordinateLists ==
  {Undefined} \cup { JSArray(SubSeq(OverlayCoordinates, 1, n)) : n \in 0..2 }

\* the dataPoints and region props of CanvasHeatmap, in the units of GeoCoords
HeatmapPoints == << [latitude |-> 1, longitude |-> 0], [latitude |-> 0, longitude |-> 1] >>

HeatmapRegions ==
  {Undefined} \cup { r \in RegionInputs : r.latitude = 0 /\ r.longitude = 0
                                           /\ r.latitudeDelta = r.longitudeDelta }

InitOverlay ==
  /\ overlayIn \in
       { << [_region |-> r, _dimensions |-> dim, _zoom |-> z, center |-> c,
             coordinates |-> cs, region |-> hr,
             dataPoints |-> SubSeq(HeatmapPoints, 1, n)] >> :
           r \in {Undefined} \cup { m \in MapRegionInputs : m.latitudeDelta = 10000 },
           dim \in {Undefined} \cup LayoutInputs,
           z \in {0, 15136},
           c \in {Undefined, OverlayCoordinates[1]},
           cs \in CoordinateLists,
           hr \in HeatmapRegions,
           n \in 0..2 }
  /\ circleOut = << >>
  /\ polylineOut = << >>
  /\ markerOut = << >>
  /\ heatmapOut = << >>
  /\ IdleSpeed
  /\ IdleStops
  /\ IdlePanel
  /\ IdleGeo
  /\ IdleMap
  /\ IdleDist
  /\ IdleApp
  /\ IdleEndpoint
  /\ IdleAuth

RenderCircle ==
  /\ circleOut = << >>
  /\ circleOut' = << Circle(overlayIn[1]) >>
  /\ UNCHANGED << overlayIn, polylineOut, markerOut, heatmapOut, notOverlayVars >>

RenderPolyline ==
  /\ polylineOut = << >>
  /\ polylineOut' = << Polyline(overlayIn[1]) >>
  /\ UNCHANGED << overlayIn, circleOut, markerOut, heatmapOut, notOverlayVars >>

RenderMarker ==
  /\ markerOut = << >>
  /\ markerOut' = << Marker(overlayIn[1]) >>
  /\ UNCHANGED << overlayIn, circleOut, polylineOut, heatmapOut, notOverlayVars >>

\* CanvasHeatmap with the default height and a width of 400
RenderCanvasHeatmap ==
  /\ heatmapOut = << >>
  /\ heatmapOut' = << ScreenPoints(overlayIn[1].dataPoints, overlayIn[1].region, 400, 300) >>
  /\ UNCHANGED << overlayIn, circleOut, polylineOut, markerOut, notOverlayVars >>

NextOverlay ==
  \/ RenderCircle
  \/ RenderPolyline
  \/ RenderMarker
  \/ RenderCanvasHeatmap

SpecOverlay == InitOverlay /\ [][NextOverlay]_vars


(***************************************************************************)
(* calculateDistance on two points, called in both orders                  *)
(***************************************************************************)
\* the largest longitude, in steps of the grid
LonSteps == 3

\* the latitudes of the grid between the poles
Latitudes == { 0 - GridStep, 0, GridStep }

Longitudes == { GridStep * k : k \in (0 - LonSteps)..LonSteps }

InitDist ==
  /\ distIn \in { << [lat1 |-> a, lon1 |-> b, lat2 |-> c, lon2 |-> e] >> :
                    a \in Latitudes, b \in Longitudes, c \in Latitudes, e \in Longitudes }
  /\ distOut = << >>
  /\ distBackOut = << >>
  /\ IdleSpeed
  /\ IdleStops
  /\ IdlePanel
  /\ IdleGeo
  /\ IdleMap
  /\ IdleOverlay
  /\ IdleApp
  /\ IdleEndpoint
  /\ IdleAuth

CallCalculateDistance ==
  /\ distOut = << >>
  /\ distOut' = << calculateDistance(distIn[1].lat1, distIn[1].lon1,
                                     distIn[1].lat2, distIn[1].lon2) >>
  /\ UNCHANGED << distIn, distBackOut, notDistVars >>

CallCalculateDistanceBack ==
  /\ distBackOut = << >>
  /\ distBackOut' = << calculateDistance(distIn[1].lat2, distIn[1].lon2,
                                         distIn[1].lat1, distIn[1].lon1) >>
  /\ UNCHANGED << distIn, distOut, notDistVars >>

NextDist ==
  \/ CallCalculateDistance
  \/ CallCalculateDistanceBack

SpecDist == InitDist /\ [][NextDist]_vars


(***************************************************************************)
(* The tracking app: mount, demo simulation on web, real tracking on the   *)
(* devices, Clear Data                                                     *)
(***************************************************************************)
\* the most data points a run records
MaxSamples == 3

\* the most intervals a run schedules
MaxIntervals == 2

\* the most startTracking calls in flight at once
MaxStartCalls == 2

\* the most location watches a run creates
MaxSubscriptions == 2

\* the most location fixes the watches deliver
MaxFixes == 2

demoVars ==
  << isSimulating, simulatedSpeed, totalDistance, demoIntervalRef,
     lastDemoLocationRef, intervals, nextIntervalId >>

trackVars ==
  << locationSubscription, netInfoSubscription, watches, listeners,
     nextSubscriptionId, startCalls, callbacks, fixCount >>

\* the App component after construction: the useState and useRef initial values
InitApp ==
  /\ isWeb \in BOOLEAN
  /\ mountPc = "effect"
  /\ demoModeEnabled = isWeb
  /\ location = Null
  /\ errorMsg = ""
  /\ isTracking = FALSE
  /\ isSimulating = FALSE
  /\ networkSpeed = 0
  /\ networkType = "unknown"
  /\ simulatedSpeed = 35
  /\ dataPoints = << >>
  /\ pathCoordinates = << >>
  /\ totalDistance = 0
  /\ demoIntervalRef = 0
  /\ lastDemoLocationRef = Null
  /\ intervals = {}
  /\ nextIntervalId = 1
  /\ mapTarget = << >>
  /\ locationSubscription = 0
  /\ netInfoSubscription = 0
  /\ watches = {}
  /\ listeners = {}
  /\ nextSubscriptionId = 1
  /\ startCalls = EmptyBag
  /\ callbacks = {}
  /\ fixCount = 0
  /\ clearAlert = FALSE
  /\ IdleSpeed
  /\ IdleStops
  /\ IdlePanel
  /\ IdleGeo
  /\ IdleMap
  /\ IdleOverlay
  /\ IdleDist
  /\ IdleEndpoint
  /\ IdleAuth

\* the main screen is rendered, with the map and the control buttons
MainScreen == location # Null /\ errorMsg = ""

\* the mount effect on web: demo mode is initialised at the start location
MountWeb ==
  /\ isWeb
  /\ mountPc = "effect"
  /\ mountPc' = "done"
  /\ demoModeEnabled' = TRUE
  /\ lastDemoLocationRef' = StartLocation
  /\ location' = StartLocation
  /\ \E initialSpeed \in DemoSpeeds :
       /\ networkSpeed' = initialSpeed
       /\ simulatedSpeed' = initialSpeed
  /\ networkType' = "demo"
  /\ UNCHANGED << isWeb, errorMsg, isTracking, isSimulating, dataPoints, pathCoordinates,
                  totalDistance, demoIntervalRef, intervals, nextIntervalId, mapTarget,
                  trackVars, clearAlert, notAppVars >>

\* startDemoSimulation()
StartDemoSimulation ==
  /\ isWeb
  /\ MainScreen
  /\ nextIntervalId <= MaxIntervals
  /\ IF NeedsInitialPoint(lastDemoLocationRef)
     THEN /\ lastDemoLocationRef' = StartLocation
          /\ location' = StartLocation
          /\ \E initialSpeed \in DemoSpeeds :
               /\ simulatedSpeed' = initialSpeed
               /\ networkSpeed' = initialSpeed
               /\ dataPoints' = << DataPoint(StartLocation.latitude,
                                             StartLocation.longitude, initialSpeed) >>
          /\ pathCoordinates' = << StartLocation >>
     ELSE UNCHANGED << lastDemoLocationRef, location, simulatedSpeed, networkSpeed,
                       dataPoints, pathCoordinates >>
  /\ intervals' = IntervalsAfterClear(intervals, demoIntervalRef) \cup {nextIntervalId}
  /\ demoIntervalRef' = nextIntervalId
  /\ nextIntervalId' = nextIntervalId + 1
  /\ isSimulating' = TRUE
  /\ isTracking' = TRUE
  /\ networkType' = "demo"
  /\ UNCHANGED << isWeb, mountPc, demoModeEnabled, errorMsg, totalDistance, mapTarget,
                  trackVars, clearAlert, notAppVars >>

\* demoStep(), run by a scheduled interval
DemoStep ==
  /\ intervals # {}
  /\ Len(dataPoints) < MaxSamples
  /\ IF lastDemoLocationRef = Null
     THEN UNCHANGED << location, lastDemoLocationRef, simulatedSpeed, networkSpeed,
                       totalDistance, dataPoints, pathCoordinates, mapTarget >>
     ELSE \E move \in DemoMoves, newSpeed \in DemoSpeeds :
            LET newLat == lastDemoLocationRef.latitude + move.deltaLat
                newLng == lastDemoLocationRef.longitude + move.deltaLng
            IN  /\ simulatedSpeed' = newSpeed
                /\ networkSpeed' = newSpeed
                /\ location' = Coordinates(newLat, newLng)
                /\ lastDemoLocationRef' = Coordinates(newLat, newLng)
                /\ totalDistance' = totalDistance + move.distance
                /\ dataPoints' = Append(dataPoints, DataPoint(newLat, newLng, newSpeed))
                /\ pathCoordinates' = Append(pathCoordinates, PathPoint(newLat, newLng))
                /\ mapTarget' = << RegionAround(newLat, newLng) >>
  /\ UNCHANGED << isWeb, mountPc, demoModeEnabled, errorMsg, isTracking, isSimulating,
                  networkType, demoIntervalRef, intervals, nextIntervalId,
                  trackVars, clearAlert, notAppVars >>

\* stopDemoSimulation()
StopDemoSimulation ==
  /\ isWeb
  /\ MainScreen
  /\ intervals' = IF demoIntervalRef # 0 THEN intervals \ {demoIntervalRef} ELSE intervals
  /\ demoIntervalRef' = 0
  /\ isSimulating' = FALSE
  /\ isTracking' = FALSE
  /\ UNCHANGED << isWeb, mountPc, demoModeEnabled, location, errorMsg, networkSpeed,
                  networkType, simulatedSpeed, dataPoints, pathCoordinates, totalDistance,
                  lastDemoLocationRef, nextIntervalId, mapTarget,
                  trackVars, clearAlert, notAppVars >>

\* resetDemoSimulation(): stopDemoSimulation() and the reset of the walk
ResetDemoSimulation ==
  /\ isWeb
  /\ MainScreen
  /\ intervals' = IF demoIntervalRef # 0 THEN intervals \ {demoIntervalRef} ELSE intervals
  /\ demoIntervalRef' = 0
  /\ isSimulating' = FALSE
  /\ isTracking' = FALSE
  /\ totalDistance' = 0
  /\ dataPoints' = << >>
  /\ pathCoordinates' = << >>
  /\ simulatedSpeed' = 35
  /\ location' = StartLocation
  /\ lastDemoLocationRef' = LastDemoLocationAfterReset
  /\ UNCHANGED << isWeb, mountPc, demoModeEnabled, errorMsg, networkSpeed, networkType,
                  nextIntervalId, mapTarget, trackVars, clearAlert, notAppVars >>

\* the mount effect on a device: requestPermissions()
MountPermission ==
  /\ ~isWeb
  /\ mountPc = "effect"
  /\ \/ /\ mountPc' = "location"
        /\ UNCHANGED errorMsg
     \/ /\ mountPc' = "done"
        /\ errorMsg' = "Permission to access location was denied"
  /\ UNCHANGED << isWeb, demoModeEnabled, location, isTracking, networkSpeed, networkType,
                  dataPoints, pathCoordinates, mapTarget, demoVars, trackVars,
                  clearAlert, notAppVars >>

\* the mount effect on a device: getCurrentLocation()
MountLocation ==
  /\ mountPc = "location"
  /\ \/ /\ mountPc' = "speed"
        /\ location' = DevicePosition(fixCount)
        /\ UNCHANGED errorMsg
     \/ /\ mountPc' = "done"
        /\ errorMsg' = "Error getting location"
        /\ UNCHANGED location
  /\ UNCHANGED << isWeb, demoModeEnabled, isTracking, networkSpeed, networkType,
                  dataPoints, pathCoordinates, mapTarget, demoVars, trackVars,
                  clearAlert, notAppVars >>

\* the mount effect on a device: measureNetworkSpeed()
MountSpeed ==
  /\ mountPc = "speed"
  /\ mountPc' = "done"
  /\ \E outcome \in MeasureOutcomes :
       IF outcome.ok
       THEN networkType' = outcome.type /\ networkSpeed' = outcome.speed
       ELSE UNCHANGED << networkType, networkSpeed >>
  /\ UNCHANGED << isWeb, demoModeEnabled, location, errorMsg, isTracking,
                  dataPoints, pathCoordinates, mapTarget, demoVars, trackVars,
                  clearAlert, notAppVars >>

\* startTracking() on a device, up to its first await
StartTracking ==
  /\ ~(isWeb /\ demoModeEnabled)
  /\ MainScreen
  /\ ~isTracking
  /\ ~clearAlert
  /\ BagCardinality(startCalls) < MaxStartCalls
  /\ startCalls' = startCalls (+) SetToBag({StartCall("permission", Null, 0)})
  /\ UNCHANGED << isWeb, mountPc, demoModeEnabled, location, errorMsg, isTracking,
                  networkSpeed, networkType, dataPoints, pathCoordinates, mapTarget,
                  demoVars, locationSubscription, netInfoSubscription, watches, listeners,
                  nextSubscriptionId, callbacks, fixCount, clearAlert, notAppVars >>

\* startTracking() after requestPermissions(): on a device a refusal ends the call
StartPermission ==
  /\ \E call \in BagToSet(startCalls) :
       /\ call.pc = "permission"
       /\ \/ /\ startCalls' = CallsAfter(startCalls, call,
                                          SetToBag({StartCall("location", Null, 0)}))
             /\ UNCHANGED errorMsg
          \/ /\ startCalls' = CallsAfter(startCalls, call, EmptyBag)
             /\ errorMsg' = "Permission to access location was denied"
  /\ UNCHANGED << isWeb, mountPc, demoModeEnabled, location, isTracking,
                  networkSpeed, networkType, dataPoints, pathCoordinates, mapTarget,
                  demoVars, locationSubscription, netInfoSubscription, watches, listeners,
                  nextSubscriptionId, callbacks, fixCount, clearAlert, notAppVars >>

\* startTracking() after getCurrentLocation()
StartLocated ==
  /\ \E call \in BagToSet(startCalls) :
       /\ call.pc = "location"
       /\ \/ /\ location' = DevicePosition(fixCount)
             /\ startCalls' =
                  CallsAfter(startCalls, call,
                             SetToBag({StartCall("speed", DevicePosition(fixCount), 0)}))
             /\ UNCHANGED errorMsg
          \/ /\ startCalls' = CallsAfter(startCalls, call, EmptyBag)
             /\ errorMsg' = "Error getting location"
             /\ UNCHANGED location
  /\ UNCHANGED << isWeb, mountPc, demoModeEnabled, isTracking,
                  networkSpeed, networkType, dataPoints, pathCoordinates, mapTarget,
                  demoVars, locationSubscription, netInfoSubscription, watches, listeners,
                  nextSubscriptionId, callbacks, fixCount, clearAlert, notAppVars >>

\* startTracking() after measureNetworkSpeed(): addDataPoint(initialLocation,
\* initialSpeed) and the call of Location.watchPositionAsync
StartMeasured ==
  /\ Len(dataPoints) < MaxSamples
  /\ nextSubscriptionId <= MaxSubscriptions
  /\ \E call \in BagToSet(startCalls), outcome \in MeasureOutcomes :
       /\ call.pc = "speed"
       /\ IF outcome.ok
          THEN networkType' = outcome.type /\ networkSpeed' = outcome.speed
          ELSE UNCHANGED << networkType, networkSpeed >>
       /\ dataPoints' = Append(dataPoints, DataPoint(call.fix.latitude,
                                                     call.fix.longitude, outcome.speed))
       /\ pathCoordinates' = Append(pathCoordinates,
                                  PathPoint(call.fix.latitude, call.fix.longitude))
       /\ startCalls' =
            CallsAfter(startCalls, call,
                       SetToBag({StartCall("watch", call.fix, nextSubscriptionId)}))
  /\ watches' = watches \cup {nextSubscriptionId}
  /\ nextSubscriptionId' = nextSubscriptionId + 1
  /\ UNCHANGED << isWeb, mountPc, demoModeEnabled, location, errorMsg, isTracking,
                  mapTarget, demoVars, locationSubscription, netInfoSubscription,
                  listeners, callbacks, fixCount, clearAlert, notAppVars >>

\* startTracking() after watchPositionAsync: the subscription is stored, the
\* NetInfo listener is added and isTracking is set
StartWatching ==
  /\ \E call \in BagToSet(startCalls) :
       /\ call.pc = "watch"
       /\ locationSubscription' = call.watch
       /\ netInfoSubscription' = call.watch
       /\ listeners' = listeners \cup {call.watch}
       /\ startCalls' = CallsAfter(startCalls, call, EmptyBag)
  /\ isTracking' = TRUE
  /\ UNCHANGED << isWeb, mountPc, demoModeEnabled, location, errorMsg,
                  networkSpeed, networkType, dataPoints, pathCoordinates, mapTarget,
                  demoVars, watches, nextSubscriptionId, callbacks, fixCount,
                  clearAlert, notAppVars >>

\* the callback of an active watch, up to its await of measureNetworkSpeed()
LocationUpdate ==
  /\ watches # {}
  /\ fixCount < MaxFixes
  /\ fixCount' = fixCount + 1
  /\ location' = DevicePosition(fixCount + 1)
  /\ callbacks' = callbacks \cup {DevicePosition(fixCount + 1)}
  /\ UNCHANGED << isWeb, mountPc, demoModeEnabled, errorMsg, isTracking,
                  networkSpeed, networkType, dataPoints, pathCoordinates, mapTarget,
                  demoVars, locationSubscription, netInfoSubscription, watches, listeners,
                  nextSubscriptionId, startCalls, clearAlert, notAppVars >>

\* the callback of a watch after measureNetworkSpeed(): addDataPoint(newLocation,
\* speed) and the centring of the map
LocationMeasured ==
  /\ Len(dataPoints) < MaxSamples
  /\ \E fix \in callbacks, outcome \in MeasureOutcomes :
       /\ IF outcome.ok
          THEN networkType' = outcome.type /\ networkSpeed' = outcome.speed
          ELSE UNCHANGED << networkType, networkSpeed >>
       /\ dataPoints' = Append(dataPoints, DataPoint(fix.latitude, fix.longitude,
                                                     outcome.speed))
       /\ pathCoordinates' = Append(pathCoordinates, PathPoint(fix.latitude, fix.longitude))
       /\ mapTarget' = << RegionAround(fix.latitude, fix.longitude) >>
       /\ callbacks' = callbacks \ {fix}
  /\ UNCHANGED << isWeb, mountPc, demoModeEnabled, location, errorMsg, isTracking,
                  demoVars, locationSubscription, netInfoSubscription, watches, listeners,
                  nextSubscriptionId, startCalls, fixCount, clearAlert, notAppVars >>

\* the NetInfo listener of startTracking()
NetInfoEvent ==
  /\ listeners # {}
  /\ \E state \in NetStates :
       /\ networkType' = state.type
       /\ networkSpeed' = state.speed
  /\ UNCHANGED << isWeb, mountPc, demoModeEnabled, location, errorMsg, isTracking,
                  dataPoints, pathCoordinates, mapTarget, demoVars, trackVars,
                  clearAlert, notAppVars >>

\* stopTracking() on a device
StopTracking ==
  /\ ~(isWeb /\ demoModeEnabled)
  /\ MainScreen
  /\ isTracking
  /\ ~clearAlert
  /\ watches' = IF locationSubscription # 0 THEN watches \ {locationSubscription}
                ELSE watches
  /\ locationSubscription' = 0
  /\ listeners' = IF netInfoSubscription # 0 THEN listeners \ {netInfoSubscription}
                  ELSE listeners
  /\ netInfoSubscription' = 0
  /\ isTracking' = FALSE
  /\ UNCHANGED << isWeb, mountPc, demoModeEnabled, location, errorMsg,
                  networkSpeed, networkType, dataPoints, pathCoordinates, mapTarget,
                  demoVars, nextSubscriptionId, startCalls, callbacks, fixCount,
                  clearAlert, notAppVars >>

\* clearData(): the alert is shown
ClearData ==
  /\ ~demoModeEnabled
  /\ MainScreen
  /\ Len(dataPoints) # 0
  /\ ~clearAlert
  /\ clearAlert' = TRUE
  /\ UNCHANGED << isWeb, mountPc, demoModeEnabled, location, errorMsg, isTracking,
                  networkSpeed, networkType, dataPoints, pathCoordinates, mapTarget,
                  demoVars, trackVars, notAppVars >>

\* the Clear button of the alert
ConfirmClearData ==
  /\ clearAlert
  /\ clearAlert' = FALSE
  /\ dataPoints' = << >>
  /\ pathCoordinates' = << >>
  /\ UNCHANGED << isWeb, mountPc, demoModeEnabled, location, errorMsg, isTracking,
                  networkSpeed, networkType, mapTarget, demoVars, trackVars, notAppVars >>

\* the Cancel button of the alert
CancelClearData ==
  /\ clearAlert
  /\ clearAlert' = FALSE
  /\ UNCHANGED << isWeb, mountPc, demoModeEnabled, location, errorMsg, isTracking,
                  networkSpeed, networkType, dataPoints, pathCoordinates, mapTarget,
                  demoVars, trackVars, notAppVars >>

NextApp ==
  \/ MountWeb
  \/ StartDemoSimulation
  \/ DemoStep
  \/ StopDemoSimulation
  \/ ResetDemoSimulation
  \/ MountPermission
  \/ MountLocation
  \/ MountSpeed
  \/ StartTracking
  \/ StartPermission
  \/ StartLocated
  \/ StartMeasured
  \/ StartWatching
  \/ LocationUpdate
  \/ LocationMeasured
  \/ NetInfoEvent
  \/ StopTracking
  \/ ClearData
  \/ ConfirmClearData
  \/ CancelClearData

SpecApp == InitApp /\ [][NextApp]_vars


(***************************************************************************)
(* getNextEndpoint called by the latency tests                             *)
(***************************************************************************)
\* the most calls of getNextEndpoint in a run
MaxEndpointCalls == 12

\* the module after it is loaded
InitEndpoint ==
  /\ endpointFile \in EndpointFiles
  /\ currentEndpointIndex = 0
  /\ endpointLog = << >>
  /\ multiTests = << >>
  /\ singleTests = << >>
  /\ IdleSpeed
  /\ IdleStops
  /\ IdlePanel
  /\ IdleGeo
  /\ IdleMap
  /\ IdleOverlay
  /\ IdleDist
  /\ IdleApp
  /\ IdleAuth

\* one call of getNextEndpoint(), the first statement of its caller
CallGetNextEndpoint ==
  /\ Len(endpointLog) < MaxEndpointCalls
  /\ \E caller \in EndpointCallers(endpointFile) :
       endpointLog' = Append(endpointLog,
                             [caller |-> caller,
                              endpoint |-> getNextEndpoint(EndpointsOf(endpointFile),
                                                           currentEndpointIndex).endpoint])
  /\ currentEndpointIndex' = getNextEndpoint(EndpointsOf(endpointFile),
                                              currentEndpointIndex).index
  /\ UNCHANGED << endpointFile, multiTests, singleTests >>
  /\ UNCHANGED notEndpointVars

NextEndpoint == CallGetNextEndpoint

SpecEndpoint == InitEndpoint /\ [][NextEndpoint]_vars

(***************************************************************************)
(* The latency tests of useNetworkSpeed                                    *)
(***************************************************************************)
\* the most performMultiLatencyTest calls in a run
MaxMultiTests == 2

\* the most single performLatencyTest calls in a run
MaxSingleTests == 1

\* the hook's module at any point of its rotation, no test in flight
InitLatency ==
  /\ endpointFile = "useNetworkSpeed.ts"
  /\ currentEndpointIndex \in 0..(Len(TEST_ENDPOINTS) - 1)
  /\ endpointLog = << >>
  /\ multiTests = << >>
  /\ singleTests = << >>
  /\ IdleSpeed
  /\ IdleStops
  /\ IdlePanel
  /\ IdleGeo
  /\ IdleMap
  /\ IdleOverlay
  /\ IdleDist
  /\ IdleApp
  /\ IdleAuth

\* performMultiLatencyTest() up to its await: the three probes are started
StartMultiLatencyTest ==
  /\ Len(multiTests) < MaxMultiTests
  /\ multiTests' = Append(multiTests,
       MultiTest(ThreeProbes(EndpointsOf(endpointFile), currentEndpointIndex).endpoints,
                 << PendingSpeed, PendingSpeed, PendingSpeed >>, PendingSpeed))
  /\ endpointLog' = endpointLog \o
       [i \in 1..3 |->
          [caller |-> "performMultiLatencyTest",
           endpoint |-> ThreeProbes(EndpointsOf(endpointFile), currentEndpointIndex).endpoints[i]]]
  /\ currentEndpointIndex' = ThreeProbes(EndpointsOf(endpointFile), currentEndpointIndex).index
  /\ UNCHANGED << endpointFile, singleTests >>
  /\ UNCHANGED notEndpointVars

\* performLatencyTest() called by a measureSpeed without useMultiTest, up
\* to its fetch
StartLatencyTest ==
  /\ Len(singleTests) < MaxSingleTests
  /\ singleTests' = Append(singleTests, PendingSpeed)
  /\ endpointLog' = Append(endpointLog,
       [caller |-> "measureSpeed",
        endpoint |-> getNextEndpoint(EndpointsOf(endpointFile), currentEndpointIndex).endpoint])
  /\ currentEndpointIndex' = getNextEndpoint(EndpointsOf(endpointFile), currentEndpointIndex).index
  /\ UNCHANGED << endpointFile, multiTests >>
  /\ UNCHANGED notEndpointVars

\* the fetch of one probe of a multi test settles and the probe returns
ProbeSettles ==
  /\ \E t \in 1..Len(multiTests), i \in 1..3, outcome \in FetchOutcomes :
       /\ multiTests[t].results[i] = PendingSpeed
       /\ multiTests' = [multiTests EXCEPT ![t].results[i] = LatencyTestResult(outcome)]
  /\ UNCHANGED << endpointFile, currentEndpointIndex, endpointLog, singleTests >>
  /\ UNCHANGED notEndpointVars

\* Promise.allSettled resolves and performMultiLatencyTest returns
MultiLatencyTestReturns ==
  /\ \E t \in 1..Len(multiTests) :
       /\ multiTests[t].returned = PendingSpeed
       /\ \A i \in 1..3 : multiTests[t].results[i] # PendingSpeed
       /\ multiTests' = [multiTests EXCEPT ![t].returned = MultiTestResult(multiTests[t].results)]
  /\ UNCHANGED << endpointFile, currentEndpointIndex, endpointLog, singleTests >>
  /\ UNCHANGED notEndpointVars

\* the fetch of a single latency test settles and the test returns
LatencyTestSettles ==
  /\ \E t \in 1..Len(singleTests), outcome \in FetchOutcomes :
       /\ singleTests[t] = PendingSpeed
       /\ singleTests' = [singleTests EXCEPT ![t] = LatencyTestResult(outcome)]
  /\ UNCHANGED << endpointFile, currentEndpointIndex, endpointLog, multiTests >>
  /\ UNCHANGED notEndpointVars

NextLatency ==
  \/ StartMultiLatencyTest
  \/ StartLatencyTest
  \/ ProbeSettles
  \/ MultiLatencyTestReturns
  \/ LatencyTestSettles

SpecLatency == InitLatency /\ [][NextLatency]_vars


(***************************************************************************)
(* Authentication: mockAuth, AuthProvider, AuthGate and LoginScreen        *)
(***************************************************************************)
\* the most login, register and logout calls in a run
MaxAuthCalls == 2

\* 'Test@Example.com'
MixedCaseEmail == << "T", "e", "s", "t", "@", "E" >> \o SubSeq(ExampleCom, 3, 12)

\* 'new@example.com'
NewEmail == << "n", "e", "w" >> \o ExampleCom

\* 'test@example', which has no dot after the @
NoDotEmail == SubSeq(TestEmail, 1, 12)

\* credentials a consumer of useAuth may hand to login
LoginInputs ==
  { LoginCredentials(TestEmail, TestPassword),
    LoginCredentials(MixedCaseEmail, TestPassword),
    LoginCredentials(TestEmail, "secret1"),
    LoginCredentials(NewEmail, "secret1"),
    LoginCredentials(NoDotEmail, TestPassword) }

\* what the user may have typed into the email field of the login screen
TypedEmails == { << " " >>, << " " >> \o TestEmail, MixedCaseEmail, NoDotEmail, NewEmail }

\* what the user may have typed into the password field
TypedPasswords == { "", TestPassword, "secret1" }

\* credentials a consumer of useAuth may hand to register
RegisterInputs ==
  { RegisterCredentials(<< "A", "l" >>, NewEmail, "secret1", "secret1"),
    RegisterCredentials(<< "A", "l" >>, << "N", "e", "w" >> \o ExampleCom, TestPassword, TestPassword),
    RegisterCredentials(<< "A", "l" >>, MixedCaseEmail, "secret1", "secret1"),
    RegisterCredentials(<< " ", "A" >>, NewEmail, "secret1", "secret1"),
    RegisterCredentials(<< "A", "l" >>, NoDotEmail, "secret1", "secret1"),
    RegisterCredentials(<< "A", "l" >>, NewEmail, "short", "short"),
    RegisterCredentials(<< "A", "l" >>, NewEmail, "secret1", "secret2") }

\* the session a previous run may have left in AsyncStorage
StoredSessions ==
  { Null, [user |-> TEST_USER, token |-> Token(TEST_USER.id, FALSE)],
    [user |-> TEST_USER, token |-> Token(TEST_USER.id, TRUE)] }

\* the app when AuthProvider has rendered first: its mount effect has called
\* checkSession, AuthGate shows the spinner
InitAuth ==
  /\ MOCK_USERS = InitialUsers
  /\ \E stored \in StoredSessions :
       /\ authToken = (IF stored = Null THEN Null ELSE stored.token)
       /\ userJson = (IF stored = Null THEN Null ELSE stored.user)
  /\ user = Null
  /\ isLoading = TRUE
  /\ sessionPc = "getStoredSession"
  /\ authCalls = << >>
  /\ route = "index"
  /\ loginScreen = Null
  /\ nextInstance = 1
  /\ IdleSpeed
  /\ IdleStops
  /\ IdlePanel
  /\ IdleGeo
  /\ IdleMap
  /\ IdleOverlay
  /\ IdleDist
  /\ IdleApp
  /\ IdleEndpoint

\* AuthGate renders for the new isLoading and user, and its effect runs;
\* screen is the LoginScreen as the handler left it
Rendered(loading, currentUser, screen) ==
  /\ route' = RouteAfterEffect(loading, currentUser, route)
  /\ loginScreen' = ScreenAfterRender(loading, currentUser, route, screen, nextInstance)
  /\ nextInstance' =
       IF screen = Null /\ ScreenAfterRender(loading, currentUser, route, screen, nextInstance) # Null
       THEN nextInstance + 1
       ELSE nextInstance

\* checkSession of the mount effect, once the stored items have been read:
\* validateToken only computes, so nothing runs between the two awaits
CheckSession ==
  /\ sessionPc = "getStoredSession"
  /\ sessionPc' = "done"
  /\ user' = SessionUser(StoredSession(authToken, userJson), user)
  /\ isLoading' = FALSE
  /\ Rendered(FALSE, SessionUser(StoredSession(authToken, userJson), user), loginScreen)
  /\ UNCHANGED << MOCK_USERS, authToken, userJson, authCalls >>
  /\ UNCHANGED notAuthVars

\* the text shown for a failed response: response.error || 'Login failed'
ErrorShown(response) == IF response.error # "" THEN response.error ELSE "Login failed"

\* login(credentials) of the context up to its await; screen is the
\* LoginScreen as the calling handler left it
CallLogin(credentials, origin, screen) ==
  /\ Len(authCalls) < MaxAuthCalls
  /\ isLoading' = TRUE
  /\ authCalls' = Append(authCalls, AuthCall("login", "delay", origin, credentials, Null))
  /\ Rendered(TRUE, user, screen)
  /\ UNCHANGED << MOCK_USERS, authToken, userJson, user, sessionPc >>
  /\ UNCHANGED notAuthVars

\* the Sign In button of the mounted LoginScreen: handleLogin up to its await
HandleLogin ==
  /\ loginScreen # Null
  /\ ~loginScreen.isSubmitting
  /\ \E email \in TypedEmails, password \in TypedPasswords :
       IF Trim(email) = << >>
       THEN /\ loginScreen' = [loginScreen EXCEPT !.error = "Please enter your email"]
            /\ UNCHANGED << MOCK_USERS, authToken, userJson, user, isLoading, sessionPc,
                            authCalls, route, nextInstance >>
            /\ UNCHANGED notAuthVars
       ELSE IF password = ""
       THEN /\ loginScreen' = [loginScreen EXCEPT !.error = "Please enter your password"]
            /\ UNCHANGED << MOCK_USERS, authToken, userJson, user, isLoading, sessionPc,
                            authCalls, route, nextInstance >>
            /\ UNCHANGED notAuthVars
       ELSE CallLogin(LoginCredentials(Trim(email), password), loginScreen.instance,
                      [loginScreen EXCEPT !.error = "", !.isSubmitting = TRUE])

\* login(credentials) called by another consumer of useAuth
ContextLogin ==
  \E credentials \in LoginInputs : CallLogin(credentials, 0, loginScreen)

\* register(credentials) of the context up to its await
ContextRegister ==
  /\ Len(authCalls) < MaxAuthCalls
  /\ \E credentials \in RegisterInputs :
       authCalls' = Append(authCalls, AuthCall("register", "delay", 0, credentials, Null))
  /\ isLoading' = TRUE
  /\ Rendered(TRUE, user, loginScreen)
  /\ UNCHANGED << MOCK_USERS, authToken, userJson, user, sessionPc >>
  /\ UNCHANGED notAuthVars

\* logout() of the context up to its await
ContextLogout ==
  /\ Len(authCalls) < MaxAuthCalls
  /\ authCalls' = Append(authCalls, AuthCall("logout", "delay", 0, Null, Null))
  /\ isLoading' = TRUE
  /\ Rendered(TRUE, user, loginScreen)
  /\ UNCHANGED << MOCK_USERS, authToken, userJson, user, sessionPc >>
  /\ UNCHANGED notAuthVars

\* mockLogin after simulateDelay(): the checks, and the first setItem called
MockLoginAnswers ==
  /\ \E c \in 1..Len(authCalls) :
       /\ authCalls[c].kind = "login"
       /\ authCalls[c].pc = "delay"
       /\ authCalls' = [authCalls EXCEPT
            ![c].response = MockLoginResponse(MOCK_USERS, authCalls[c].credentials),
            ![c].pc = IF MockLoginResponse(MOCK_USERS, authCalls[c].credentials).success
                      THEN "setToken" ELSE "return"]
  /\ UNCHANGED << MOCK_USERS, authToken, userJson, user, isLoading, sessionPc,
                  route, loginScreen, nextInstance >>
  /\ UNCHANGED notAuthVars

\* mockRegister after simulateDelay(): the checks, MOCK_USERS.set, and the
\* first setItem called
MockRegisterAnswers ==
  /\ \E c \in 1..Len(authCalls) :
       /\ authCalls[c].kind = "register"
       /\ authCalls[c].pc = "delay"
       /\ authCalls' = [authCalls EXCEPT
            ![c].response = MockRegisterResponse(MOCK_USERS, authCalls[c].credentials),
            ![c].pc = IF MockRegisterResponse(MOCK_USERS, authCalls[c].credentials).success
                      THEN "setToken" ELSE "return"]
       /\ MOCK_USERS' = UsersAfterRegister(MOCK_USERS, authCalls[c].credentials)
  /\ UNCHANGED << authToken, userJson, user, isLoading, sessionPc,
                  route, loginScreen, nextInstance >>
  /\ UNCHANGED notAuthVars

\* AsyncStorage.setItem(AUTH_TOKEN_KEY, token) of mockLogin or mockRegister
SetTokenItem ==
  /\ \E c \in 1..Len(authCalls) :
       /\ authCalls[c].pc = "setToken"
       /\ authToken' = authCalls[c].response.token
       /\ authCalls' = [authCalls EXCEPT ![c].pc = "setUser"]
  /\ UNCHANGED << MOCK_USERS, userJson, user, isLoading, sessionPc,
                  route, loginScreen, nextInstance >>
  /\ UNCHANGED notAuthVars

\* AsyncStorage.setItem(USER_KEY, JSON.stringify(user)), after which
\* mockLogin or mockRegister returns
SetUserItem ==
  /\ \E c \in 1..Len(authCalls) :
       /\ authCalls[c].pc = "setUser"
       /\ userJson' = authCalls[c].response.user
       /\ authCalls' = [authCalls EXCEPT ![c].pc = "return"]
  /\ UNCHANGED << MOCK_USERS, authToken, user, isLoading, sessionPc,
                  route, loginScreen, nextInstance >>
  /\ UNCHANGED notAuthVars

\* mockLogout after simulateDelay(300): AsyncStorage.removeItem(AUTH_TOKEN_KEY)
RemoveTokenItem ==
  /\ \E c \in 1..Len(authCalls) :
       /\ authCalls[c].kind = "logout"
       /\ authCalls[c].pc = "delay"
       /\ authCalls' = [authCalls EXCEPT ![c].pc = "removeUser"]
  /\ authToken' = Null
  /\ UNCHANGED << MOCK_USERS, userJson, user, isLoading, sessionPc,
                  route, loginScreen, nextInstance >>
  /\ UNCHANGED notAuthVars

\* AsyncStorage.removeItem(USER_KEY), after which mockLogout returns
RemoveUserItem ==
  /\ \E c \in 1..Len(authCalls) :
       /\ authCalls[c].pc = "removeUser"
       /\ authCalls' = [authCalls EXCEPT ![c].pc = "return"]
  /\ userJson' = Null
  /\ UNCHANGED << MOCK_USERS, authToken, user, isLoading, sessionPc,
                  route, loginScreen, nextInstance >>
  /\ UNCHANGED notAuthVars

\* the LoginScreen after handleLogin has gone on with the response: the
\* setError and setIsSubmitting of an instance that is no longer mounted
\* change nothing
ScreenAfterResponse(screen, call) ==
  IF screen = Null \/ call.origin = 0 \/ screen.instance # call.origin THEN screen
  ELSE IF call.response.success THEN [screen EXCEPT !.isSubmitting = FALSE]
  ELSE [screen EXCEPT !.error = ErrorShown(call.response), !.isSubmitting = FALSE]

\* the user of the context after login or register got the response
UserAfterResponse(current, response) ==
  IF response.success /\ response.user # Null THEN response.user ELSE current

\* login or register of the context after its await, and then the handler
\* that awaited it
LoginReturns ==
  /\ \E c \in 1..Len(authCalls) :
       /\ authCalls[c].kind \in {"login", "register"}
       /\ authCalls[c].pc = "return"
       /\ authCalls' = [authCalls EXCEPT ![c].pc = "done"]
       /\ user' = UserAfterResponse(user, authCalls[c].response)
       /\ Rendered(FALSE, UserAfterResponse(user, authCalls[c].response),
                   ScreenAfterResponse(loginScreen, authCalls[c]))
  /\ isLoading' = FALSE
  /\ UNCHANGED << MOCK_USERS, authToken, userJson, sessionPc >>
  /\ UNCHANGED notAuthVars

\* logout of the context after its await
LogoutReturns ==
  /\ \E c \in 1..Len(authCalls) :
       /\ authCalls[c].kind = "logout"
       /\ authCalls[c].pc = "return"
       /\ authCalls' = [authCalls EXCEPT ![c].pc = "done"]
  /\ user' = Null
  /\ isLoading' = FALSE
  /\ Rendered(FALSE, Null, loginScreen)
  /\ UNCHANGED << MOCK_USERS, authToken, userJson, sessionPc >>
  /\ UNCHANGED notAuthVars

NextAuth ==
  \/ CheckSession
  \/ HandleLogin
  \/ ContextLogin
  \/ ContextRegister
  \/ ContextLogout
  \/ MockLoginAnswers
  \/ MockRegisterAnswers
  \/ SetTokenItem
  \/ SetUserItem
  \/ RemoveTokenItem
  \/ RemoveUserItem
  \/ LoginReturns
  \/ LogoutReturns

SpecAuth == InitAuth /\ [][NextAuth]_vars

(***************************************************************************)
(* Properties                                                              *)
(***************************************************************************)
HexValue(c) == CHOOSE d \in 0..15 : DigitChars[d + 1] = c

\* the three channels a "#rrggbb" string encodes
HexChannels(hex) ==
  IF Len(hex) = 7 /\ hex[1] = "#"
  THEN RGB(16 * HexValue(hex[2]) + HexValue(hex[3]),
           16 * HexValue(hex[4]) + HexValue(hex[5]),
           16 * HexValue(hex[6]) + HexValue(hex[7]))
  ELSE RGB(0 - 1, 0 - 1, 0 - 1)

RECURSIVE TotalSpeed(_, _)
\* the sum of the speeds of the points from index i on
TotalSpeed(points, i) ==
  IF i > Len(points) THEN 0 ELSE points[i].speed + TotalSpeed(points, i + 1)

NumPointsWith(points, P(_)) ==
  Cardinality({ i \in 1..Len(points) : P(points[i].speed) })

\* C1: for every speed in [0, 100] the colour getSpeedColor returns has
\* red, green and blue channels that are integers in [0, 255]
C1_ChannelsInRange ==
  \A i \in 1..Len(colorOut) :
    speedMbps \in 0..100 =>
      LET m == RgbaMatch(colorOut[i].rgba)
      IN  /\ m # << >>
          /\ \A k \in 1..3 : ParseInt(m[k]) \in 0..255
          /\ colorOut[i].locals.color
               = RGB(ParseInt(m[1]), ParseInt(m[2]), ParseInt(m[3]))

C1_Witness ==
  /\ speedMbps = 50
  /\ colorOut # << >>
  /\ colorOut[1].locals.color = RGB(143, 253, 18)

\* C2: getSpeedColor clamps its input to [0, MAX_SPEED]: a speed below 0
\* gives the colour of speed 0, a speed above 100 the colour of speed 100,
\* the normalized value lies in [0, 1] and a bracketing pair of stops is found
C2_ClampsBeforeLookup ==
  \A i \in 1..Len(colorOut) :
    LET l == colorOut[i].locals
    IN  /\ speedMbps < 0 => colorOut[i].rgba = getSpeedColor(0, opacity)
        /\ speedMbps > 100 => colorOut[i].rgba = getSpeedColor(100, opacity)
        /\ l.normalized >= 0 /\ l.normalized <= PosScale
        /\ l.found

\* C3: getSpeedColor(0) is the first stop's colour (139, 0, 0) and
\* getSpeedColor(100) is the last stop's colour (0, 180, 0)
C3_EndpointColours ==
  \A i \in 1..Len(colorOut) :
    /\ speedMbps = 0 =>
         /\ colorOut[i].locals.color = GRADIENT_STOPS[1].color
         /\ colorOut[i].rgba
              = RgbaString(139, 0, 0, HundredthsToString(opacity))
    /\ speedMbps = 100 =>
         /\ colorOut[i].locals.color = GRADIENT_STOPS[NumStops].color
         /\ colorOut[i].rgba
              = RgbaString(0, 180, 0, HundredthsToString(opacity))

C3_Witness ==
  /\ speedMbps = 100
  /\ colorOut # << >>
  /\ colorOut[1].locals.color = RGB(0, 180, 0)

\* C4: when the normalized value equals the position of stop k >= 1, the
\* lookup selects the earlier segment (k - 1, k) and the colour is exactly
\* stop k's colour; the later segment (k, k + 1) gives the same colour there
C4_BoundaryTakesEarlierSegment ==
  \A i \in 1..Len(stopsOut) :
    \A k \in 2..NumStops :
      normalizedIn = GRADIENT_STOPS[k].pos =>
        /\ stopsOut[i].found
        /\ stopsOut[i].lower = k - 1
        /\ stopsOut[i].upper = k
        /\ stopsOut[i].color = GRADIENT_STOPS[k].color
        /\ k < NumStops =>
             lerpColor(GRADIENT_STOPS[k].color, GRADIENT_STOPS[k + 1].color,
                       InterpolationFactor(normalizedIn, k, k + 1))
               = GRADIENT_STOPS[k].color

C4_Witness ==
  /\ normalizedIn = 550000
  /\ stopsOut # << >>
  /\ stopsOut[1].lower = 6
  /\ stopsOut[1].color = RGB(255, 255, 0)

\* C5: for every speed, the inner, middle and outer colours of
\* getHeatmapGradient carry the channels of getSpeedColor at alpha 0.9, 0.5
\* and 0.15, and the hex string encodes the same three channels
C5_GradientCarriesSpeedColor ==
  \A i \in 1..Len(gradientOut) :
    /\ gradientOut[i].inner = getSpeedColor(speedMbps, 90)
    /\ gradientOut[i].middle = getSpeedColor(speedMbps, 50)
    /\ gradientOut[i].outer = getSpeedColor(speedMbps, 15)
    /\ HexChannels(gradientOut[i].hex) = SpeedColorLocals(speedMbps).color

\* C6: getSpeedLabel is total with inclusive lower bounds: Excellent iff
\* speed >= 50, Good iff 25 <= speed < 50, Fair iff 10 <= speed < 25, Poor
\* iff 5 <= speed < 10, Very Poor iff 1 <= speed < 5, No Signal iff speed < 1
C6_LabelThresholds ==
  \A i \in 1..Len(labelOut) :
    LET label == labelOut[i]
        s == speedMbps
    IN  /\ label \in {"Excellent", "Good", "Fair", "Poor", "Very Poor", "No Signal"}
        /\ label = "Excellent" <=> s >= 50
        /\ label = "Good" <=> (25 <= s /\ s < 50)
        /\ label = "Fair" <=> (10 <= s /\ s < 25)
        /\ label = "Poor" <=> (5 <= s /\ s < 10)
        /\ label = "Very Poor" <=> (1 <= s /\ s < 5)
        /\ label = "No Signal" <=> s < 1

C6_Witness ==
  /\ speedMbps = 50
  /\ labelOut = << "Excellent" >>

\* C7: calculateStats of the empty list is the empty state: count, average,
\* min, max and the five tier counts are 0, and nothing is divided by zero
C7_EmptyStats ==
  \A i \in 1..Len(panelOut) :
    Len(panelPoints) = 0 =>
      LET st == panelOut[i].stats
      IN  /\ st.count = 0
          /\ st.average.den # 0
          /\ st.average.num = 0
          /\ st.min = 0
          /\ st.max = 0
          /\ st.excellent = 0 /\ st.good = 0 /\ st.fair = 0
          /\ st.poor = 0 /\ st.veryPoor = 0

C7_Witness ==
  /\ panelPoints = << >>
  /\ panelOut # << >>
  /\ panelOut[1].stats.count = 0

C9_TierBucketsPartition ==
  \A i \in 1..Len(panelOut) :
    LET st == panelOut[i].stats
        IsExcellent(s) == s >= 50
        IsGood(s) == 25 <= s /\ s < 50
        IsFair(s) == 10 <= s /\ s < 25
        IsPoor(s) == 5 <= s /\ s < 10
        IsVeryPoor(s) == s < 5
    IN  /\ st.excellent = NumPointsWith(panelPoints, IsExcellent)
        /\ st.good = NumPointsWith(panelPoints, IsGood)
        /\ st.fair = NumPointsWith(panelPoints, IsFair)
        /\ st.poor = NumPointsWith(panelPoints, IsPoor)
        /\ st.veryPoor = NumPointsWith(panelPoints, IsVeryPoor)
        /\ st.excellent + st.good + st.fair + st.poor + st.veryPoor = st.count
        /\ st.count = Len(panelPoints)

C9_Witness ==
  /\ panelPoints = << [speed |-> 4], [speed |-> 9], [speed |-> 25] >>
  /\ panelOut # << >>
  /\ panelOut[1].stats.veryPoor = 1
  /\ panelOut[1].stats.poor = 1
  /\ panelOut[1].stats.fair = 0
  /\ panelOut[1].stats.good = 1

\* C10 as stated: the Poor count the panel reports is the number of samples
\* that getSpeedLabel classifies as Poor or Very Poor (1 <= speed < 10)
C10_PoorIsPoorAndVeryPoor ==
  \A i \in 1..Len(panelOut) :
    ~panelOut[i].noData =>
      LET IsPoorOrVeryPoor(s) == getSpeedLabel(s) \in {"Poor", "Very Poor"}
      IN  panelOut[i].poor = NumPointsWith(panelPoints, IsPoorOrVeryPoor)

\* C10 amended: the Poor count the panel reports is poor + veryPoor, the
\* number of samples with speed < 10, which getSpeedLabel classifies as
\* Poor, Very Poor or No Signal; the poor field alone counts 5 <= speed < 10
C10_PoorIsBelowTen ==
  \A i \in 1..Len(panelOut) :
    ~panelOut[i].noData =>
      LET BelowTen(s) == s < 10
          IsLowTier(s) == getSpeedLabel(s) \in {"Poor", "Very Poor", "No Signal"}
          IsPoorTier(s) == getSpeedLabel(s) = "Poor"
      IN  /\ panelOut[i].poor = NumPointsWith(panelPoints, BelowTen)
          /\ panelOut[i].poor = NumPointsWith(panelPoints, IsLowTier)
          /\ panelOut[i].stats.poor = NumPointsWith(panelPoints, IsPoorTier)

C10_Witness ==
  /\ panelPoints = << [speed |-> 0], [speed |-> 4], [speed |-> 9] >>
  /\ panelOut # << >>
  /\ panelOut[1].poor = 3
  /\ panelOut[1].stats.poor = 1

\* C11: for a non-empty list of data points the counts of the histogram
\* buckets add up to the number of data points, and the samples at or above
\* MAX_SPEED are counted in the last bucket
C11_HistogramCountsEverySample ==
  \A i \in 1..Len(panelOut) :
    Len(panelPoints) > 0 =>
      LET histogram == panelOut[i].histogram
          keep(p) == p.speed >= MAX_SPEED
      IN  /\ Len(histogram) = buckets
          /\ SumOf([b \in 1..buckets |-> histogram[b].count]) = Len(panelPoints)
          /\ histogram[buckets].count >= CountWhere(panelPoints, keep)

\* a rendered panel whose points include speeds at and above MAX_SPEED
C11_Witness ==
  /\ Len(panelOut) = 1
  /\ Len(panelPoints) = 3
  /\ \E i \in 1..Len(panelPoints) : panelPoints[i].speed > MAX_SPEED
  /\ \E i \in 1..Len(panelPoints) : panelPoints[i].speed < 10
  /\ panelOut[1].histogram[buckets].count >= 1

\* C12: every bar height is count / maxCount * 100 with maxCount the largest
\* bucket count and at least 1: the denominator is never zero, every height
\* lies in [0, 100] and the fullest bucket of a non-empty set has height 100
C12_BarHeightsNormalised ==
  \A i \in 1..Len(panelOut) :
    LET histogram == panelOut[i].histogram
    IN  /\ \A b \in 1..Len(histogram) :
              /\ histogram[b].height.den >= 1
              /\ \A c \in 1..Len(histogram) :
                    histogram[c].count <= histogram[b].height.den
              /\ histogram[b].height.num = histogram[b].count * 100
              /\ histogram[b].height.num >= 0
              /\ histogram[b].height.num <= 100 * histogram[b].height.den
        /\ Len(panelPoints) > 0 =>
              \E b \in 1..Len(histogram) :
                /\ \A c \in 1..Len(histogram) :
                      histogram[c].count <= histogram[b].count
                /\ histogram[b].height.num = 100 * histogram[b].height.den

\* a rendered panel with buckets of different fill
C12_Witness ==
  /\ Len(panelOut) = 1
  /\ \E b, c \in 1..Len(panelOut[1].histogram) :
        /\ panelOut[1].histogram[b].count = 2
        /\ panelOut[1].histogram[c].count = 1

RECURSIVE TwoToThe(_)
TwoToThe(n) == IF n = 0 THEN 1 ELSE 2 * TwoToThe(n - 1)

\* zoom is log2(360 / latitudeDelta) clamped to [1, 20]: at the lower clamp the
\* span is at least 180 degrees, at the upper clamp 360 / span is at least
\* 2^20, and in between 2^floor(zoom) <= 360 / span < 2^(floor(zoom) + 1)
IsClampedZoomOf(zoom, latitudeDelta) ==
  LET whole == zoom \div ZoomScale
  IN  /\ zoom >= MinZoom * ZoomScale
      /\ zoom <= MaxZoom * ZoomScale
      /\ zoom = MinZoom * ZoomScale => 2 * latitudeDelta >= 360 * DegScale
      /\ zoom = MaxZoom * ZoomScale =>
           latitudeDelta <= (360 * DegScale) \div TwoToThe(MaxZoom)
      /\ (zoom > MinZoom * ZoomScale /\ zoom < MaxZoom * ZoomScale) =>
           /\ latitudeDelta <= (360 * DegScale) \div TwoToThe(whole)
           /\ latitudeDelta > (360 * DegScale) \div TwoToThe(whole + 1)

\* C14: once the render and the zoom effect that follow the initial region or
\* an animateToRegion call have run, the zoom of the web MapView is
\* log2(360 / latitudeDelta) of its region clamped to [1, 20], and the zoom
\* handed to the children is never outside [1, 20]
C14_ZoomFollowsRegion ==
  /\ mapZoom >= MinZoom * ZoomScale
  /\ mapZoom <= MaxZoom * ZoomScale
  /\ \A i \in 1..Len(mapRendered) :
       /\ mapRendered[i]._zoom >= MinZoom * ZoomScale
       /\ mapRendered[i]._zoom <= MaxZoom * ZoomScale
  /\ (/\ mapRendered # << >>
      /\ ~mapNeedsRender
      /\ ~mapEffectDue
      /\ mapRegion # Undefined) =>
       /\ IsClampedZoomOf(mapZoom, mapRegion.latitudeDelta)
       /\ mapRendered[1]._region = mapRegion
       /\ mapRendered[1]._zoom = mapZoom

\* the map has settled on a region set by animateToRegion whose zoom is clamped
C14_Witness ==
  /\ mapRendered # << >>
  /\ ~mapNeedsRender
  /\ ~mapEffectDue
  /\ mapRegion # Undefined
  /\ mapRegion.latitudeDelta = 100
  /\ mapRendered[1]._region = mapRegion
  /\ mapRendered[1]._zoom = MaxZoom * ZoomScale
  /\ mapDimensions.width = 800


\* C15: when the region or the viewport dimensions are not known, Circle,
\* Polyline and Marker return null, CanvasHeatmap without a region computes
\* an empty list of screen points, and no render throws
C15_UnknownRegionIsSkipped ==
  LET unknown == overlayIn[1]._region = Undefined \/ overlayIn[1]._dimensions = Undefined
  IN  /\ \A i \in 1..Len(circleOut) :
           /\ circleOut[i] # TypeError
           /\ unknown => circleOut[i] = Null
      /\ \A i \in 1..Len(polylineOut) :
           /\ polylineOut[i] # TypeError
           /\ unknown => polylineOut[i] = Null
      /\ \A i \in 1..Len(markerOut) :
           /\ markerOut[i] # TypeError
           /\ unknown => markerOut[i] = Null
      /\ \A i \in 1..Len(heatmapOut) :
           overlayIn[1].region = Undefined => heatmapOut[i] = << >>

\* all four overlays were rendered without a region although their
\* coordinates and data points were there
C15_Witness ==
  /\ Len(circleOut) = 1 /\ Len(polylineOut) = 1
  /\ Len(markerOut) = 1 /\ Len(heatmapOut) = 1
  /\ overlayIn[1]._region = Undefined
  /\ overlayIn[1]._dimensions # Undefined
  /\ overlayIn[1].region = Undefined
  /\ overlayIn[1].center # Undefined
  /\ overlayIn[1].coordinates # Undefined
  /\ overlayIn[1].coordinates.length = 2
  /\ Len(overlayIn[1].dataPoints) = 2
  /\ circleOut[1] = Null


IsPrefix(short, long) ==
  /\ Len(short) <= Len(long)
  /\ SubSeq(long, 1, Len(short)) = short

\* C17: every step of the app other than the confirmed Clear Data and the demo
\* Reset (mount, demo start, demo step, pause, start and stop of tracking,
\* location updates, network events) leaves the recorded data points unchanged
\* and in place, and can only append at the end
C17_OnlyClearRemovesSamples ==
  [][(~ConfirmClearData /\ ~ResetDemoSimulation) => IsPrefix(dataPoints, dataPoints')]_vars

\* the demo recorded two points at different positions, after it was started twice
C17_Witness ==
  /\ isWeb
  /\ nextIntervalId = 3
  /\ Len(dataPoints) = 2
  /\ dataPoints[1].latitude # dataPoints[2].latitude
  /\ dataPoints[1].speed # dataPoints[2].speed

C19_ResetClearsTheDemo ==
  [][ResetDemoSimulation =>
       /\ intervals' = {}
       /\ demoIntervalRef' = 0
       /\ ~isSimulating'
       /\ ~isTracking'
       /\ dataPoints' = << >>
       /\ pathCoordinates' = << >>
       /\ totalDistance' = 0
       /\ location' = StartLocation
       /\ lastDemoLocationRef' = StartLocation]_vars

\* the demo has walked and was reset: the map still shows the last step
C19_Witness ==
  /\ isWeb
  /\ mapTarget # << >>
  /\ dataPoints = << >>
  /\ pathCoordinates = << >>
  /\ totalDistance = 0
  /\ ~isSimulating
  /\ intervals = {}
  /\ location = StartLocation
  /\ lastDemoLocationRef = StartLocation


\* C20: in each file the shared index stays within [0, N); the k-th call of
\* getNextEndpoint, counted from 0, returns endpoint k mod N of the list; and
\* any N consecutive calls return each of the N endpoints exactly once,
\* whoever makes the calls
C20_RoundRobin ==
  LET N == Len(EndpointsOf(endpointFile))
  IN  /\ currentEndpointIndex \in 0..(N - 1)
      /\ currentEndpointIndex = Len(endpointLog) % N
      /\ \A k \in 1..Len(endpointLog) :
           endpointLog[k].endpoint = EndpointsOf(endpointFile)[((k - 1) % N) + 1]
      /\ \A k \in 1..Len(endpointLog) :
           k + N - 1 <= Len(endpointLog) =>
             /\ { endpointLog[j].endpoint : j \in k..(k + N - 1) }
                  = { EndpointsOf(endpointFile)[e] : e \in 1..N }
             /\ Cardinality({ endpointLog[j].endpoint : j \in k..(k + N - 1) }) = N

\* the hook's index has wrapped around, with calls from both callers
C20_Witness ==
  /\ endpointFile = "useNetworkSpeed.ts"
  /\ Len(endpointLog) = Len(TEST_ENDPOINTS) + 2
  /\ currentEndpointIndex = 2
  /\ endpointLog[Len(endpointLog)].endpoint = TEST_ENDPOINTS[2]
  /\ \E j, k \in 1..Len(endpointLog) : endpointLog[j].caller # endpointLog[k].caller

\* C21: the three probes of one performMultiLatencyTest call use three
\* pairwise different endpoints, whatever the index was and whatever other
\* tests started before, between or after; and the call returns null exactly
\* when none of its three probes produced a value
C21_ProbesUseDifferentEndpoints ==
  \A t \in 1..Len(multiTests) :
    /\ \A i, j \in 1..3 : i # j => multiTests[t].endpoints[i] # multiTests[t].endpoints[j]
    /\ multiTests[t].returned # PendingSpeed =>
         /\ \A i \in 1..3 : multiTests[t].results[i] # PendingSpeed
         /\ (multiTests[t].returned = NullSpeed
               <=> \A i \in 1..3 : multiTests[t].results[i] = NullSpeed)

\* two multi tests with a single test between them, started where the index
\* wraps around; one returned null, the other the median of two values
C21_Witness ==
  /\ Len(multiTests) = 2
  /\ Len(endpointLog) = 7
  /\ endpointLog[1].endpoint = TEST_ENDPOINTS[9]
  /\ endpointLog[4].caller = "measureSpeed"
  /\ multiTests[1].endpoints = << TEST_ENDPOINTS[9], TEST_ENDPOINTS[10], TEST_ENDPOINTS[1] >>
  /\ multiTests[1].returned = NullSpeed
  /\ multiTests[2].results = << 100, NullSpeed, 1 >>
  /\ multiTests[2].returned = 100


\* the call c of the given kind gets the answer of the service in this step
Answered(c, kind) ==
  /\ c \in 1..Len(authCalls)
  /\ authCalls[c].kind = kind
  /\ authCalls[c].pc = "delay"
  /\ authCalls'[c].pc # "delay"

\* the error of the first check of mockLogin that fails, "" if none fails
FirstFailedLoginCheck(email, password) ==
  IF ~EmailRegexTest(email) THEN "Invalid email format"
  ELSE IF ToLowerCase(email) \notin DOMAIN MOCK_USERS THEN "No account found with this email"
  ELSE IF MOCK_USERS[ToLowerCase(email)].password # password THEN "Incorrect password"
  ELSE ""

\* C22: mockLogin succeeds if and only if the email has a valid format, an
\* account exists under the lower-cased email and the password equals the
\* stored one; a failure carries the error of the first failed check and the
\* failed call leaves the stored token, the stored user and the user database
\* unchanged, in the step that answers and in every later step of the call
C22_LoginSucceedsIffCredentialsMatch ==
  [][\A c \in 1..Len(authCalls) :
       /\ Answered(c, "login") =>
            /\ authCalls'[c].response.success
                 <=> FirstFailedLoginCheck(authCalls[c].credentials.email,
                                           authCalls[c].credentials.password) = ""
            /\ authCalls'[c].response.success =>
                 authCalls'[c].response.user
                   = MOCK_USERS[ToLowerCase(authCalls[c].credentials.email)].user
            /\ ~authCalls'[c].response.success =>
                 /\ authCalls'[c].response.error
                      = FirstFailedLoginCheck(authCalls[c].credentials.email,
                                              authCalls[c].credentials.password)
                 /\ UNCHANGED << authToken, userJson, MOCK_USERS >>
       /\ (/\ authCalls[c].kind = "login"
           /\ authCalls[c].response # Null
           /\ ~authCalls[c].response.success
           /\ authCalls'[c] # authCalls[c]) =>
            UNCHANGED << authToken, userJson, MOCK_USERS >>]_vars

\* one login was refused for its password, another one, typed in mixed case,
\* went through and stored its session
C22_Witness ==
  /\ \E c \in 1..Len(authCalls) :
       /\ authCalls[c].pc = "done"
       /\ authCalls[c].kind = "login"
       /\ authCalls[c].response.error = "Incorrect password"
  /\ \E c \in 1..Len(authCalls) :
       /\ authCalls[c].pc = "done"
       /\ authCalls[c].kind = "login"
       /\ authCalls[c].credentials.email = MixedCaseEmail
       /\ authCalls[c].response.success
       /\ user = TEST_USER
       /\ userJson = TEST_USER

\* C23: the user database only grows, its keys are lower-cased emails (so at
\* most one account per lower-cased email), no account or password in it ever
\* changes, and a mockRegister whose email equals an existing one ignoring
\* letter case fails and leaves the database and the stored session unchanged
C23_AccountsAreNeverOverwritten ==
  /\ [](\A key \in DOMAIN MOCK_USERS :
          ToLowerCase(key) = key /\ MOCK_USERS[key].user.email = key)
  /\ [][/\ DOMAIN MOCK_USERS \subseteq DOMAIN MOCK_USERS'
        /\ \A key \in DOMAIN MOCK_USERS : MOCK_USERS'[key] = MOCK_USERS[key]
        /\ \A c \in 1..Len(authCalls) :
             (/\ Answered(c, "register")
              /\ \E key \in DOMAIN MOCK_USERS :
                   ToLowerCase(key) = ToLowerCase(authCalls[c].credentials.email)) =>
               /\ ~authCalls'[c].response.success
               /\ authCalls'[c].pc = "return"
               /\ UNCHANGED << MOCK_USERS, authToken, userJson >>]_vars

\* a registration was refused because its email, in mixed case, was taken,
\* and another one added an account
C23_Witness ==
  /\ Cardinality(DOMAIN MOCK_USERS) = 2
  /\ MOCK_USERS[TestEmail].password = TestPassword
  /\ \E c \in 1..Len(authCalls) :
       /\ authCalls[c].pc = "done"
       /\ authCalls[c].kind = "register"
       /\ authCalls[c].credentials.email = MixedCaseEmail
       /\ authCalls[c].response.error = "An account with this email already exists"

C25_FailedLoginShowsItsError ==
  [][\A c \in 1..Len(authCalls) :
       (/\ authCalls[c].kind = "login"
        /\ authCalls[c].origin # 0
        /\ authCalls[c].pc = "return"
        /\ authCalls'[c].pc = "done"
        /\ ~authCalls[c].response.success
        /\ sessionPc = "done"
        /\ \A k \in 1..Len(authCalls) : k # c => authCalls[k].pc = "done") =>
         /\ user' = Null
         /\ route' = "login"
         /\ loginScreen' # Null
         /\ loginScreen'.error = ErrorShown(authCalls[c].response)]_vars

\* C26: a stopTracking that runs while no startTracking call is in flight
\* leaves no location watch and no NetInfo listener active and isTracking
\* false, whatever startTracking calls overlapped before it
C26_StopRemovesEverySubscription ==
  [][(StopTracking /\ startCalls = EmptyBag) =>
       /\ watches' = {}
       /\ listeners' = {}
       /\ ~isTracking']_vars

\* C27: during real tracking the data points are in the order in which their
\* fixes were delivered (a later fix has a larger latitude), and a callback
\* of a watch appends no data point while tracking is stopped with no
\* startTracking call in flight
C27_PointsInDeliveryOrder ==
  /\ [](~isWeb =>
          \A i \in 1..Len(dataPoints), j \in 1..Len(dataPoints) :
            i < j => dataPoints[i].latitude <= dataPoints[j].latitude)
  /\ [][(~isWeb /\ ~isTracking /\ startCalls = EmptyBag) =>
          Len(dataPoints') <= Len(dataPoints)]_vars

\* C28: dataPoints and pathCoordinates have the same length and the i-th
\* path coordinate is the latitude and longitude of the i-th data point
C28_PathMatchesDataPoints ==
  /\ Len(pathCoordinates) = Len(dataPoints)
  /\ \A i \in 1..Len(dataPoints) :
       pathCoordinates[i] = Coordinates(dataPoints[i].latitude, dataPoints[i].longitude)

\* a device session with two points at different positions, the second one
\* appended by the callback of the watch for its second fix
C28_Witness ==
  /\ ~isWeb
  /\ fixCount = 2
  /\ Len(dataPoints) = 2
  /\ Len(pathCoordinates) = 2
  /\ dataPoints[1].latitude # dataPoints[2].latitude
  /\ pathCoordinates[2] = DevicePosition(2)

====
